---- MODULE Spec2Model ----
(***************************************************************************)
(* S3FileSystemService (the storage adapter of @tokenring-ai/aws): a       *)
(* filesystem contract implemented over a flat S3 key space.  Strings are  *)
(* sequences of one-character strings, object bodies are sequences of      *)
(* bytes, and the bucket is a function from stored keys to bodies.         *)
(***************************************************************************)
EXTENDS Integers, Sequences, FiniteSets, TLC

VARIABLES
  store,        \* the bucket: stored key -> body
  s3Client,     \* S3FileSystemService.s3Client: 0 (null) or a client instance
  awsS3Client,  \* AWSService.s3Client: 0 (undefined) or a client instance
  constructed,  \* number of S3Client instances constructed so far
  stsClient,    \* AWSService.stsClient: 0 (undefined) or 1
  options,      \* AWSService.options
  inflight,     \* adapter operations suspended at an await, with the client they hold
  last,         \* the record of the call that finished last
  gen,          \* the generator object of the current getDirectoryTree call
  other         \* the generator object of a second getDirectoryTree call on the adapter

vars ==
  <<store, s3Client, awsS3Client, constructed, stsClient, options, inflight, last, gen,
    other>>

\* what the adapter's own calls leave alone
provider == <<stsClient, options, inflight>>

clients == <<s3Client, awsS3Client, constructed>>

----------------------------------------------------------------------------
(* Bounds                                                                  *)

\* number of adapter operations that may be suspended at an await together
MaxInflight == 2

\* length of the longest path string handed to _s3Key on its own
MaxLen == 5

\* number of keys the bucket returns per listing page (at most)
PageSize == 2

----------------------------------------------------------------------------
(* Strings                                                                 *)

Slash == "/"
Backslash == "\\"
Quote == "\""

\* the paths handed to the adapter
Paths ==
  { <<>>, <<"/">>, <<"d">>, <<"d", "/">>, <<"d", "/", "i">>,
    <<"d", "\\", ".", "\\", "i">>, <<".", ".", "/", "d">> }

\* the pairs of paths handed to copy
CopyPaths == { <<>>, <<"d">>, <<"d", "/", "i">>, <<".", ".", "/", "d">> }

\* the arguments handed to the unsupported methods
AnyArgs == { <<>>, <<"d">> }

\* the text contents handed to writeFile, as sequences of code points
Contents == { <<104, 105>>, <<118, 233>> }

bucketName == <<"B">>

\* UTF-16 code of the characters that occur in keys
CharCode(c) ==
  CASE c = "." -> 46
    [] c = "/" -> 47
    [] c = "B" -> 66
    [] c = "\\" -> 92
    [] c = "d" -> 100
    [] c = "f" -> 102
    [] c = "i" -> 105
    [] OTHER -> 0

\* String.prototype.endsWith
EndsWith(s, c) == Len(s) > 0 /\ s[Len(s)] = c

\* String.prototype.startsWith
StartsWith(s, p) == Len(p) <= Len(s) /\ SubSeq(s, 1, Len(p)) = p

RECURSIVE ReplaceFirstBackslash(_)
\* a replace without the g flag: the first backslash only
ReplaceFirstBackslash(s) ==
  IF Len(s) = 0 THEN s
  ELSE IF Head(s) = "\\" THEN <<"/">> \o Tail(s)
  ELSE <<Head(s)>> \o ReplaceFirstBackslash(Tail(s))

\* fsPath.replace(/\\/g, "/")
ReplaceBackslashes(s) == [i \in 1..Len(s) |-> IF s[i] = Backslash THEN Slash ELSE s[i]]

RECURSIVE StripLeading(_)
\* the ^\/+ alternative of the second replace
StripLeading(s) ==
  IF Len(s) > 0 /\ s[1] = Slash THEN StripLeading(Tail(s)) ELSE s

RECURSIVE StripTrailing(_)
\* the \/+$ alternative of the second replace
StripTrailing(s) ==
  IF Len(s) > 0 /\ s[Len(s)] = Slash THEN StripTrailing(SubSeq(s, 1, Len(s) - 1)) ELSE s

RECURSIVE Split(_)
\* normalizedPath.split("/"): always at least one (possibly empty) part
Split(s) ==
  IF \A i \in 1..Len(s) : s[i] # Slash THEN <<s>>
  ELSE LET i == CHOOSE j \in 1..Len(s) :
                  s[j] = Slash /\ \A m \in 1..(j - 1) : s[m] # Slash
       IN <<SubSeq(s, 1, i - 1)>> \o Split(SubSeq(s, i + 1, Len(s)))

RECURSIVE Join(_)
\* resultParts.join("/")
Join(parts) ==
  IF Len(parts) = 0 THEN <<>>
  ELSE IF Len(parts) = 1 THEN parts[1]
  ELSE parts[1] \o <<Slash>> \o Join(Tail(parts))

DotDot == <<".", ".">>
Dot == <<".">>

\* no error (a call that returned, a generator that has not thrown)
NoError == [name |-> "none", status |-> 0, msg |-> <<>>, arg |-> <<>>]

\* an Error thrown by the adapter itself: message words and the interpolated path
AdapterError(words, arg) == [name |-> "Error", status |-> 0, msg |-> words, arg |-> arg]

TraversalError(fsPath) ==
  AdapterError(<<"Invalid", "path:", "$", "attempts", "to", "traverse", "above", "bucket", "root.">>, fsPath)

RECURSIVE WalkPartsKeepDot(_, _)
\* the for-loop pushing "." like any other part
WalkPartsKeepDot(parts, resultParts) ==
  IF Len(parts) = 0 THEN [ok |-> TRUE, parts |-> resultParts]
  ELSE LET part == Head(parts) IN
       IF part = DotDot
       THEN IF Len(resultParts) = 0
            THEN [ok |-> FALSE, parts |-> <<>>]
            ELSE WalkPartsKeepDot(Tail(parts), SubSeq(resultParts, 1, Len(resultParts) - 1))
       ELSE IF part # <<>>
            THEN WalkPartsKeepDot(Tail(parts), Append(resultParts, part))
            ELSE WalkPartsKeepDot(Tail(parts), resultParts)

RECURSIVE WalkPartsClamp(_, _)
\* the for-loop staying at the root on ".." with an empty stack
WalkPartsClamp(parts, resultParts) ==
  IF Len(parts) = 0 THEN [ok |-> TRUE, parts |-> resultParts]
  ELSE LET part == Head(parts) IN
       IF part = DotDot
       THEN IF Len(resultParts) = 0
            THEN WalkPartsClamp(Tail(parts), resultParts)
            ELSE WalkPartsClamp(Tail(parts), SubSeq(resultParts, 1, Len(resultParts) - 1))
       ELSE IF part # Dot /\ part # <<>>
            THEN WalkPartsClamp(Tail(parts), Append(resultParts, part))
            ELSE WalkPartsClamp(Tail(parts), resultParts)

RECURSIVE WalkParts(_, _)
\* the for-loop of _s3Key over parts with the stack resultParts;
\* the result is the stack, or <<"throw">> marked by ok = FALSE
WalkParts(parts, resultParts) ==
  IF Len(parts) = 0 THEN [ok |-> TRUE, parts |-> resultParts]
  ELSE LET part == Head(parts) IN
       IF part = DotDot
       THEN IF Len(resultParts) = 0
            THEN [ok |-> FALSE, parts |-> <<>>]
            ELSE WalkParts(Tail(parts), SubSeq(resultParts, 1, Len(resultParts) - 1))
       ELSE IF part # Dot /\ part # <<>>
            THEN WalkParts(Tail(parts), Append(resultParts, part))
            ELSE WalkParts(Tail(parts), resultParts)

\* _s3Key(fsPath): [ok, key] or [ok = FALSE, error]
s3Key(fsPath) ==
  LET normalizedPath == StripTrailing(StripLeading(ReplaceBackslashes(fsPath)))
      walked == WalkParts(Split(normalizedPath), <<>>)
  IN IF walked.ok
     THEN [ok |-> TRUE, key |-> Join(walked.parts), error |-> NoError]
     ELSE [ok |-> FALSE, key |-> <<>>, error |-> TraversalError(fsPath)]

----------------------------------------------------------------------------
(* Bodies: Body strings are sent as UTF-8, transformToString decodes UTF-8  *)

RECURSIVE Utf8Encode(_)
Utf8Encode(s) ==
  IF Len(s) = 0 THEN <<>>
  ELSE LET cp == Head(s) IN
       (IF cp < 128 THEN <<cp>> ELSE <<192 + (cp \div 64), 128 + (cp % 64)>>)
         \o Utf8Encode(Tail(s))

RECURSIVE transformToString(_)
\* response.Body.transformToString(): UTF-8 decoding, U+FFFD on a malformed byte
transformToString(b) ==
  IF Len(b) = 0 THEN <<>>
  ELSE IF b[1] < 128 THEN <<b[1]>> \o transformToString(Tail(b))
  ELSE IF b[1] >= 192 /\ b[1] < 224 /\ Len(b) >= 2 /\ b[2] >= 128 /\ b[2] < 192
       THEN <<(b[1] - 192) * 64 + (b[2] - 128)>> \o transformToString(SubSeq(b, 3, Len(b)))
  ELSE <<65533>> \o transformToString(Tail(b))

----------------------------------------------------------------------------
(* The bucket as the S3 client sees it: s3Client.send(command)             *)

S3Error(name, status) == [name |-> name, status |-> status, msg |-> <<>>, arg |-> <<>>]

NoInject == [at |-> 0, err |-> NoError]

\* the failures the transport or the service can answer a request with
InjectErrors == { S3Error("InternalError", 500), S3Error("NoSuchBucket", 404) }

\* the errors a probe can be rejected with, by name and HTTP status
\* (status 0: the error carries no $metadata.httpStatusCode)
ProbeErrors ==
  {S3Error(name, status) : name \in {"NoSuchKey", "NotFound", "AccessDenied"},
                           status \in {0, 403, 404}}

\* no failure, or failure err as the answer to request number at of a call
\* that issues at most n requests
Injections(n) == {NoInject} \cup [at : 1..n, err : InjectErrors]

\* the same for the calls that treat every failure alike
Failures == {NoInject, [at |-> 1, err |-> S3Error("InternalError", 500)]}

Min(a, b) == IF a < b THEN a ELSE b

RECURSIVE KeyLess(_, _)
\* S3 lists keys in UTF-8 binary order
KeyLess(a, b) ==
  IF Len(b) = 0 THEN FALSE
  ELSE IF Len(a) = 0 THEN TRUE
  ELSE IF CharCode(a[1]) # CharCode(b[1]) THEN CharCode(a[1]) < CharCode(b[1])
  ELSE KeyLess(Tail(a), Tail(b))

RECURSIVE SortedKeys(_)
SortedKeys(S) ==
  IF S = {} THEN <<>>
  ELSE LET m == CHOOSE k \in S : \A o \in S \ {k} : KeyLess(k, o)
       IN <<m>> \o SortedKeys(S \ {m})

Reply(data, st) == [ok |-> TRUE, error |-> NoError, data |-> data, st |-> st]

Fault(error, st) == [ok |-> FALSE, error |-> error, data |-> "none", st |-> st]

\* the bucket and key a CopySource header names: text before and after the first "/"
CopySourceBucket(src) == Head(Split(src))

CopySourceKey(src) == SubSeq(src, Len(Head(Split(src))) + 2, Len(src))

S3Head(st, req) ==
  IF req.Key \in DOMAIN st
  THEN Reply([ContentLength |-> Len(st[req.Key]), LastModified |-> "LastModified",
              ContentType |-> "application/octet-stream",
              ETag |-> <<Quote, ToString(Len(st[req.Key])), Quote>>], st)
  ELSE Fault(S3Error("NotFound", 404), st)

S3Get(st, req) ==
  IF req.Key \in DOMAIN st
  THEN Reply([Body |-> st[req.Key]], st)
  ELSE Fault(S3Error("NoSuchKey", 404), st)

S3Put(st, req) ==
  Reply("none", [k \in DOMAIN st \cup {req.Key} |->
                   IF k = req.Key THEN Utf8Encode(req.Body) ELSE st[k]])

S3Delete(st, req) ==
  Reply("none", [k \in DOMAIN st \ {req.Key} |-> st[k]])

S3Copy(st, req) ==
  LET srcBucket == CopySourceBucket(req.CopySource)
      srcKey == CopySourceKey(req.CopySource)
  IN IF srcBucket # bucketName THEN Fault(S3Error("NoSuchBucket", 404), st)
     ELSE IF srcKey \notin DOMAIN st THEN Fault(S3Error("NoSuchKey", 404), st)
     ELSE IF srcKey = req.Key THEN Fault(S3Error("InvalidRequest", 400), st)
     ELSE Reply("none", [k \in DOMAIN st \cup {req.Key} |->
                           IF k = req.Key THEN st[srcKey] ELSE st[k]])

\* one page: the keys under Prefix after the cursor, in order, at most MaxKeys
\* (MaxKeys = 0 and ContinuationToken = <<>> stand for undefined)
S3List(st, req) ==
  LET matching == SortedKeys({k \in DOMAIN st :
                     /\ StartsWith(k, req.Prefix)
                     /\ (req.ContinuationToken = <<>> \/ KeyLess(req.ContinuationToken, k))})
      limit == IF req.MaxKeys = 0 THEN PageSize ELSE Min(req.MaxKeys, PageSize)
      n == Min(limit, Len(matching))
      page == SubSeq(matching, 1, n)
  IN Reply([Contents |-> [i \in 1..n |-> [Key |-> page[i]]],
            KeyCount |-> n,
            NextContinuationToken |-> IF n < Len(matching) THEN page[n] ELSE <<>>], st)

S3Send(st, req) ==
  IF req.Bucket # bucketName THEN Fault(S3Error("NoSuchBucket", 404), st)
  ELSE CASE req.cmd = "HeadObject" -> S3Head(st, req)
         [] req.cmd = "GetObject" -> S3Get(st, req)
         [] req.cmd = "PutObject" -> S3Put(st, req)
         [] req.cmd = "DeleteObject" -> S3Delete(st, req)
         [] req.cmd = "CopyObject" -> S3Copy(st, req)
         [] req.cmd = "ListObjectsV2" -> S3List(st, req)

\* await s3Client.send(command), as request number n of the call
Send(st, req, n, inj) ==
  IF inj.at = n THEN Fault(inj.err, st) ELSE S3Send(st, req)

----------------------------------------------------------------------------
(* The adapter's operations: outcome of one call on bucket st              *)

\* what a call resolves to: a boolean, a string, or (stat) a result object
Boolean(b) == [type |-> "boolean", bool |-> b]

String(text) == [type |-> "string", text |-> text]

Undefined == [type |-> "undefined"]

Return(value, reqs, st) ==
  [ok |-> TRUE, value |-> value, error |-> NoError, reqs |-> reqs, st |-> st]

Throw(error, reqs, st) ==
  [ok |-> FALSE, value |-> Undefined, error |-> error, reqs |-> reqs, st |-> st]

\* a not-found test that knows one error name only
isNotFoundByOneName(error) == error.name = "NoSuchKey"

\* error.name === "NoSuchKey" || error.name === "NotFound" || httpStatusCode === 404
isNotFound(error) ==
  error.name = "NoSuchKey" \/ error.name = "NotFound" \/ error.status = 404

PathNotFound == <<"Path", "not", "found:">>

\* writeFile that leaves an existing object alone (create-only)
writeFileCreateOnly(st, fsPath, content, inj) ==
  LET k == s3Key(fsPath)
      command == [cmd |-> "PutObject", Bucket |-> bucketName, Key |-> k.key, Body |-> content]
      r == Send(st, command, 1, inj)
  IN IF ~k.ok THEN Throw(k.error, <<>>, st)
     ELSE IF k.key = <<>>
     THEN Throw(AdapterError(<<"Path", "results", "in", "an", "empty", "S3", "key.">>, <<>>), <<>>, st)
     ELSE IF k.key \in DOMAIN st THEN Return(Boolean(TRUE), <<>>, st)
     ELSE IF r.ok THEN Return(Boolean(TRUE), <<command>>, r.st)
     ELSE Throw(r.error, <<command>>, st)

writeFile(st, fsPath, content, inj) ==
  LET k == s3Key(fsPath)
      command == [cmd |-> "PutObject", Bucket |-> bucketName, Key |-> k.key, Body |-> content]
      r == Send(st, command, 1, inj)
  IN IF ~k.ok THEN Throw(k.error, <<>>, st)
     ELSE IF k.key = <<>>
     THEN Throw(AdapterError(<<"Path", "results", "in", "an", "empty", "S3", "key.">>, <<>>), <<>>, st)
     ELSE IF r.ok THEN Return(Boolean(TRUE), <<command>>, r.st)
     ELSE Throw(r.error, <<command>>, st)

\* getFile that sends its command a second time when the first attempt fails
getFileRetry(st, fsPath, inj) ==
  LET k == s3Key(fsPath)
      command == [cmd |-> "GetObject", Bucket |-> bucketName, Key |-> k.key]
      r == Send(st, command, 1, inj)
      again == Send(st, command, 2, inj)
  IN IF ~k.ok THEN Throw(k.error, <<>>, st)
     ELSE IF k.key = <<>>
     THEN Throw(AdapterError(<<"Path", "results", "in", "an", "empty", "S3", "key.">>, <<>>), <<>>, st)
     ELSE IF r.ok THEN Return(String(transformToString(r.data.Body)), <<command>>, r.st)
     ELSE IF again.ok
     THEN Return(String(transformToString(again.data.Body)), <<command, command>>, again.st)
     ELSE Throw(again.error, <<command, command>>, st)

getFile(st, fsPath, inj) ==
  LET k == s3Key(fsPath)
      command == [cmd |-> "GetObject", Bucket |-> bucketName, Key |-> k.key]
      r == Send(st, command, 1, inj)
  IN IF ~k.ok THEN Throw(k.error, <<>>, st)
     ELSE IF k.key = <<>>
     THEN Throw(AdapterError(<<"Path", "results", "in", "an", "empty", "S3", "key.">>, <<>>), <<>>, st)
     ELSE IF r.ok THEN Return(String(transformToString(r.data.Body)), <<command>>, r.st)
     ELSE Throw(r.error, <<command>>, st)

\* deleteFile that fails on a key that is not stored
deleteFileStrict(st, fsPath, inj) ==
  LET k == s3Key(fsPath)
      command == [cmd |-> "DeleteObject", Bucket |-> bucketName, Key |-> k.key]
      r == Send(st, command, 1, inj)
  IN IF ~k.ok THEN Throw(k.error, <<>>, st)
     ELSE IF k.key = <<>>
     THEN Throw(AdapterError(<<"Path", "results", "in", "an", "empty", "S3", "key",
                               "for", "deletion.">>, <<>>), <<>>, st)
     ELSE IF k.key \notin DOMAIN st THEN Throw(S3Error("NoSuchKey", 404), <<>>, st)
     ELSE IF r.ok THEN Return(Boolean(TRUE), <<command>>, r.st)
     ELSE Throw(r.error, <<command>>, st)

\* deleteFile that removes the keys under the key along with the object
deleteFileRecursive(st, fsPath, inj) ==
  LET k == s3Key(fsPath)
      command == [cmd |-> "DeleteObject", Bucket |-> bucketName, Key |-> k.key]
      r == Send(st, command, 1, inj)
      kept == {key \in DOMAIN r.st : ~StartsWith(key, k.key \o <<Slash>>)}
  IN IF ~k.ok THEN Throw(k.error, <<>>, st)
     ELSE IF k.key = <<>>
     THEN Throw(AdapterError(<<"Path", "results", "in", "an", "empty", "S3", "key",
                               "for", "deletion.">>, <<>>), <<>>, st)
     ELSE IF r.ok THEN Return(Boolean(TRUE), <<command>>, [key \in kept |-> r.st[key]])
     ELSE Throw(r.error, <<command>>, st)

\* deleteFile that removes the directory marker of the key along with the object
deleteFileWithMarker(st, fsPath, inj) ==
  LET k == s3Key(fsPath)
      command == [cmd |-> "DeleteObject", Bucket |-> bucketName, Key |-> k.key]
      marker == [cmd |-> "DeleteObject", Bucket |-> bucketName, Key |-> k.key \o <<Slash>>]
      r == Send(st, command, 1, inj)
      r2 == Send(r.st, marker, 2, inj)
  IN IF ~k.ok THEN Throw(k.error, <<>>, st)
     ELSE IF k.key = <<>>
     THEN Throw(AdapterError(<<"Path", "results", "in", "an", "empty", "S3", "key",
                               "for", "deletion.">>, <<>>), <<>>, st)
     ELSE IF ~r.ok THEN Throw(r.error, <<command>>, st)
     ELSE IF r2.ok THEN Return(Boolean(TRUE), <<command, marker>>, r2.st)
     ELSE Throw(r2.error, <<command, marker>>, r.st)

deleteFile(st, fsPath, inj) ==
  LET k == s3Key(fsPath)
      command == [cmd |-> "DeleteObject", Bucket |-> bucketName, Key |-> k.key]
      r == Send(st, command, 1, inj)
  IN IF ~k.ok THEN Throw(k.error, <<>>, st)
     ELSE IF k.key = <<>>
     THEN Throw(AdapterError(<<"Path", "results", "in", "an", "empty", "S3", "key",
                               "for", "deletion.">>, <<>>), <<>>, st)
     ELSE IF r.ok THEN Return(Boolean(TRUE), <<command>>, r.st)
     ELSE Throw(r.error, <<command>>, st)

\* exists that answers false to every probe failure
existsSwallowing(st, fsPath, inj) ==
  LET k == s3Key(fsPath)
      command == [cmd |-> "HeadObject", Bucket |-> bucketName, Key |-> k.key]
      r == Send(st, command, 1, inj)
  IN IF ~k.ok THEN Throw(k.error, <<>>, st)
     ELSE IF k.key = <<>> THEN Return(Boolean(FALSE), <<>>, st)
     ELSE IF r.ok THEN Return(Boolean(TRUE), <<command>>, r.st)
     ELSE Return(Boolean(FALSE), <<command>>, st)

\* exists that also answers true for a key that has a marker or children
existsDirectoryAware(st, fsPath, inj) ==
  LET k == s3Key(fsPath)
      command == [cmd |-> "HeadObject", Bucket |-> bucketName, Key |-> k.key]
      r == Send(st, command, 1, inj)
  IN IF ~k.ok THEN Throw(k.error, <<>>, st)
     ELSE IF k.key = <<>> THEN Return(Boolean(FALSE), <<>>, st)
     ELSE IF r.ok THEN Return(Boolean(TRUE), <<command>>, r.st)
     ELSE IF isNotFound(r.error)
     THEN Return(Boolean(\E key \in DOMAIN st : StartsWith(key, k.key \o <<Slash>>)),
                 <<command>>, st)
     ELSE Throw(r.error, <<command>>, st)

exists(st, fsPath, inj) ==
  LET k == s3Key(fsPath)
      command == [cmd |-> "HeadObject", Bucket |-> bucketName, Key |-> k.key]
      r == Send(st, command, 1, inj)
  IN IF ~k.ok THEN Throw(k.error, <<>>, st)
     ELSE IF k.key = <<>> THEN Return(Boolean(FALSE), <<>>, st)
     ELSE IF r.ok THEN Return(Boolean(TRUE), <<command>>, r.st)
     ELSE IF isNotFound(r.error) THEN Return(Boolean(FALSE), <<command>>, st)
     ELSE Throw(r.error, <<command>>, st)

\* the catch block without the root case
statPrefixNoRoot(st, fsPath, originalS3Key, before, n, inj) ==
  LET prefixToCheck == IF originalS3Key # <<>> THEN originalS3Key \o <<Slash>> ELSE <<>>
      listCommand == [cmd |-> "ListObjectsV2", Bucket |-> bucketName,
                      Prefix |-> prefixToCheck, ContinuationToken |-> <<>>, MaxKeys |-> 1]
      r == Send(st, listCommand, n, inj)
      reqs == Append(before, listCommand)
  IN IF ~r.ok THEN Throw(r.error, reqs, st)
     ELSE IF r.data.KeyCount > 0
     THEN Return([path |-> fsPath, isFile |-> FALSE, isDirectory |-> TRUE, size |-> 0,
                  modified |-> "null", contentType |-> "undefined", etag |-> <<>>],
                 reqs, r.st)
     ELSE Throw(AdapterError(PathNotFound, fsPath), reqs, r.st)

\* the catch block looking for the marker object only
statPrefixMarkerOnly(st, fsPath, originalS3Key, before, n, inj) ==
  LET prefixToCheck == IF originalS3Key # <<>> THEN originalS3Key \o <<Slash>> ELSE <<>>
      listCommand == [cmd |-> "ListObjectsV2", Bucket |-> bucketName,
                      Prefix |-> prefixToCheck, ContinuationToken |-> <<>>, MaxKeys |-> 1]
      r == Send(st, listCommand, n, inj)
      reqs == Append(before, listCommand)
  IN IF ~r.ok THEN Throw(r.error, reqs, st)
     ELSE IF (r.data.KeyCount > 0 /\ r.data.Contents[1].Key = prefixToCheck)
             \/ originalS3Key = <<>>
     THEN Return([path |-> fsPath, isFile |-> FALSE, isDirectory |-> TRUE, size |-> 0,
                  modified |-> "null", contentType |-> "undefined", etag |-> <<>>],
                 reqs, r.st)
     ELSE Throw(AdapterError(PathNotFound, fsPath), reqs, r.st)

\* the catch block of stat: the prefix listing, issued as request number n
statPrefix(st, fsPath, originalS3Key, before, n, inj) ==
  LET prefixToCheck == IF originalS3Key # <<>> THEN originalS3Key \o <<Slash>> ELSE <<>>
      listCommand == [cmd |-> "ListObjectsV2", Bucket |-> bucketName,
                      Prefix |-> prefixToCheck, ContinuationToken |-> <<>>, MaxKeys |-> 1]
      r == Send(st, listCommand, n, inj)
      reqs == Append(before, listCommand)
  IN IF ~r.ok THEN Throw(r.error, reqs, st)
     ELSE IF r.data.KeyCount > 0 \/ originalS3Key = <<>>
     THEN Return([path |-> fsPath, isFile |-> FALSE, isDirectory |-> TRUE, size |-> 0,
                  modified |-> "null", contentType |-> "undefined", etag |-> <<>>],
                 reqs, r.st)
     ELSE Throw(AdapterError(PathNotFound, fsPath), reqs, r.st)

\* stat whose catch goes on to the listing whatever the probe failed with
statListingAnyFailure(st, fsPath, inj) ==
  LET k == s3Key(fsPath)
      command == [cmd |-> "HeadObject", Bucket |-> bucketName, Key |-> k.key]
      r == Send(st, command, 1, inj)
  IN IF ~k.ok THEN Throw(k.error, <<>>, st)
     ELSE IF k.key = <<>> THEN statPrefix(st, fsPath, k.key, <<>>, 1, inj)
     ELSE IF r.ok
     THEN Return([path |-> fsPath, isFile |-> TRUE, isDirectory |-> FALSE,
                  size |-> r.data.ContentLength, modified |-> r.data.LastModified,
                  contentType |-> r.data.ContentType,
                  etag |-> SelectSeq(r.data.ETag, LAMBDA c : c # Quote)],
                 <<command>>, r.st)
     ELSE statPrefix(st, fsPath, k.key, <<command>>, 2, inj)

\* stat that looks for keys under the prefix before it probes the key itself
statDirectoryFirst(st, fsPath, inj) ==
  LET k == s3Key(fsPath)
      command == [cmd |-> "HeadObject", Bucket |-> bucketName, Key |-> k.key]
      listed == statPrefix(st, fsPath, k.key, <<>>, 1, inj)
      r == Send(st, command, Len(listed.reqs) + 1, inj)
  IN IF ~k.ok THEN Throw(k.error, <<>>, st)
     ELSE IF k.key = <<>> \/ listed.ok THEN listed
     ELSE IF ~StartsWith(listed.error.msg, PathNotFound) THEN listed
     ELSE IF r.ok
     THEN Return([path |-> fsPath, isFile |-> TRUE, isDirectory |-> FALSE,
                  size |-> r.data.ContentLength, modified |-> r.data.LastModified,
                  contentType |-> r.data.ContentType,
                  etag |-> SelectSeq(r.data.ETag, LAMBDA c : c # Quote)],
                 Append(listed.reqs, command), r.st)
     ELSE IF isNotFound(r.error)
     THEN Throw(AdapterError(PathNotFound, fsPath), Append(listed.reqs, command), st)
     ELSE Throw(r.error, Append(listed.reqs, command), st)

stat(st, fsPath, inj) ==
  LET k == s3Key(fsPath)
      command == [cmd |-> "HeadObject", Bucket |-> bucketName, Key |-> k.key]
      r == Send(st, command, 1, inj)
  IN IF ~k.ok THEN Throw(k.error, <<>>, st)
     ELSE IF k.key = <<>> THEN statPrefix(st, fsPath, k.key, <<>>, 1, inj)
     ELSE IF r.ok
     THEN Return([path |-> fsPath, isFile |-> TRUE, isDirectory |-> FALSE,
                  size |-> r.data.ContentLength, modified |-> r.data.LastModified,
                  contentType |-> r.data.ContentType,
                  etag |-> SelectSeq(r.data.ETag, LAMBDA c : c # Quote)],
                 <<command>>, r.st)
     ELSE IF isNotFound(r.error) THEN statPrefix(st, fsPath, k.key, <<command>>, 2, inj)
     ELSE Throw(r.error, <<command>>, st)

\* copy with source and destination exchanged in the command
copySwapped(st, sourceFsPath, destinationFsPath, inj) ==
  LET sourceKey == s3Key(sourceFsPath)
      destinationKey == s3Key(destinationFsPath)
      command == [cmd |-> "CopyObject", Bucket |-> bucketName,
                  CopySource |-> bucketName \o <<Slash>> \o destinationKey.key,
                  Key |-> sourceKey.key]
      r == Send(st, command, 1, inj)
  IN IF ~sourceKey.ok THEN Throw(sourceKey.error, <<>>, st)
     ELSE IF ~destinationKey.ok THEN Throw(destinationKey.error, <<>>, st)
     ELSE IF sourceKey.key = <<>> \/ destinationKey.key = <<>>
     THEN Throw(AdapterError(<<"Source", "path", "results", "in", "an", "empty", "S3", "key.">>,
                             <<>>), <<>>, st)
     ELSE IF r.ok THEN Return(Boolean(TRUE), <<command>>, r.st)
     ELSE Throw(r.error, <<command>>, st)

\* copy without the test of the destination key
copyUncheckedDestination(st, sourceFsPath, destinationFsPath, inj) ==
  LET sourceKey == s3Key(sourceFsPath)
      destinationKey == s3Key(destinationFsPath)
      command == [cmd |-> "CopyObject", Bucket |-> bucketName,
                  CopySource |-> bucketName \o <<Slash>> \o sourceKey.key,
                  Key |-> destinationKey.key]
      r == Send(st, command, 1, inj)
  IN IF ~sourceKey.ok THEN Throw(sourceKey.error, <<>>, st)
     ELSE IF sourceKey.key = <<>>
     THEN Throw(AdapterError(<<"Source", "path", "results", "in", "an", "empty", "S3", "key.">>,
                             <<>>), <<>>, st)
     ELSE IF r.ok THEN Return(Boolean(TRUE), <<command>>, r.st)
     ELSE Throw(r.error, <<command>>, st)

copy(st, sourceFsPath, destinationFsPath, inj) ==
  LET sourceKey == s3Key(sourceFsPath)
      destinationKey == s3Key(destinationFsPath)
      command == [cmd |-> "CopyObject", Bucket |-> bucketName,
                  CopySource |-> bucketName \o <<Slash>> \o sourceKey.key,
                  Key |-> destinationKey.key]
      r == Send(st, command, 1, inj)
  IN IF ~sourceKey.ok THEN Throw(sourceKey.error, <<>>, st)
     ELSE IF ~destinationKey.ok THEN Throw(destinationKey.error, <<>>, st)
     ELSE IF sourceKey.key = <<>>
     THEN Throw(AdapterError(<<"Source", "path", "results", "in", "an", "empty", "S3", "key.">>,
                             <<>>), <<>>, st)
     ELSE IF destinationKey.key = <<>>
     THEN Throw(AdapterError(<<"Destination", "path", "results", "in", "an", "empty", "S3",
                               "key.">>, <<>>), <<>>, st)
     ELSE IF r.ok THEN Return(Boolean(TRUE), <<command>>, r.st)
     ELSE Throw(r.error, <<command>>, st)

\* the marker put of createDirectory, after the requests of its stat call
putMarker(st, markerKey, before, inj) ==
  LET command == [cmd |-> "PutObject", Bucket |-> bucketName, Key |-> markerKey, Body |-> <<>>]
      r == Send(st, command, Len(before) + 1, inj)
  IN IF r.ok THEN Return(Boolean(TRUE), Append(before, command), r.st)
     ELSE Throw(r.error, Append(before, command), st)

\* createDirectory whose catch swallows every failure of stat and goes on to the put
createDirectorySwallowing(st, fsPath, inj) ==
  LET k == s3Key(fsPath)
      markerKey == IF EndsWith(k.key, Slash) THEN k.key ELSE k.key \o <<Slash>>
      existingStat == stat(st, markerKey, inj)
  IN IF ~k.ok THEN Throw(k.error, <<>>, st)
     ELSE IF k.key = <<>> THEN Return(Boolean(TRUE), <<>>, st)
     ELSE IF existingStat.ok /\ existingStat.value.isDirectory
     THEN Return(Boolean(TRUE), existingStat.reqs, st)
     ELSE putMarker(st, markerKey, existingStat.reqs, inj)

createDirectory(st, fsPath, inj) ==
  LET k == s3Key(fsPath)
      markerKey == IF EndsWith(k.key, Slash) THEN k.key ELSE k.key \o <<Slash>>
      existingStat == stat(st, markerKey, inj)
  IN IF ~k.ok THEN Throw(k.error, <<>>, st)
     ELSE IF k.key = <<>> THEN Return(Boolean(TRUE), <<>>, st)
     ELSE IF existingStat.ok
     THEN IF existingStat.value.isDirectory
          THEN Return(Boolean(TRUE), existingStat.reqs, st)
          ELSE putMarker(st, markerKey, existingStat.reqs, inj)
     ELSE IF ~StartsWith(existingStat.error.msg, PathNotFound)
     THEN Throw(existingStat.error, existingStat.reqs, st)
     ELSE putMarker(st, markerKey, existingStat.reqs, inj)

Unsupported == {"chown", "chmod", "rename", "watch", "executeCommand", "borrowFile", "glob", "grep"}

\* the message of the Error each unsupported method throws
unsupportedMessage(method) ==
  CASE method = "rename" ->
         <<"Method", "rename", "is", "not", "supported", "by", "S3FileSystem.", "Use", "copy()",
           "and", "deleteFile()", "to", "achieve", "a", "move", "operation.">>
    [] method = "glob" ->
         <<"Method", "glob", "is", "not", "fully", "supported", "by", "S3FileSystem.", "Only",
           "prefix-based", "listing", "is", "available", "via", "getDirectoryTree.">>
    [] method = "grep" ->
         <<"Method", "grep", "is", "not", "supported", "by", "S3FileSystem.", "Consider",
           "using", "S3", "Select", "for", "specific", "use", "cases", "or", "downloading",
           "files", "for", "local", "search.">>
    [] OTHER -> <<"Method", method, "is", "not", "supported", "by", "S3FileSystem.">>

\* an unsupported method that does nothing and reports success
unsupportedSilent(st, method) ==
  Return(Boolean(TRUE), <<>>, st)

unsupported(st, method) ==
  Throw(AdapterError(unsupportedMessage(method), <<>>), <<>>, st)

----------------------------------------------------------------------------
(* getDirectoryTree: an async generator, advanced by the consumer's next()  *)

\* the ignore predicates a caller passes (or the base class supplies), as the
\* set of keys the predicate returns true for
IgnoreFilters == { {}, {<<"d", "/", "i">>}, {<<"d">>, <<"d", "/">>} }

NoGenerator ==
  [status |-> "none", fsPath |-> <<>>, ig |-> {}, recursive |-> TRUE,
   normalizedPrefix |-> <<>>, ignoreFilter |-> {}, continuationToken |-> <<>>,
   nextToken |-> <<>>, pending |-> <<>>, listed |-> <<>>, yielded |-> <<>>,
   reqs |-> <<>>, pages |-> <<>>, error |-> NoError, abandoned |-> FALSE]

\* a getDirectoryTree whose cursor is kept on the adapter and not in the call: the
\* new generator starts from the cursor the adapter received last
getDirectoryTreeResuming(fsPath, ig, recursive) ==
  [NoGenerator EXCEPT !.status = "suspendedStart", !.fsPath = fsPath, !.ig = ig,
                      !.recursive = recursive,
                      !.continuationToken =
                         IF gen.nextToken # <<>> THEN gen.nextToken ELSE other.nextToken]

\* getDirectoryTree(fsPath, {ig, recursive}): the generator object, body not yet entered;
\* ig is {} when the caller passes no predicate and {filter} when it passes one
getDirectoryTree(fsPath, ig, recursive) ==
  [NoGenerator EXCEPT !.status = "suspendedStart", !.fsPath = fsPath, !.ig = ig,
                      !.recursive = recursive]

RECURSIVE drainWithMarker(_, _, _)
RECURSIVE drainUnfiltered(_, _, _)
RECURSIVE fetchPageMutant(_, _, _, _)

\* one iteration of the do-while whose keys are handed to a mutated for-loop
fetchPageMutant(g, st, inj, which) ==
  LET command == [cmd |-> "ListObjectsV2", Bucket |-> bucketName,
                  Prefix |-> g.normalizedPrefix,
                  ContinuationToken |-> g.continuationToken, MaxKeys |-> 0]
      r == Send(st, command, Len(g.reqs) + 1, inj)
      sent == [g EXCEPT !.reqs = Append(g.reqs, command)]
      keys == [i \in 1..Len(r.data.Contents) |-> r.data.Contents[i].Key]
      got == [sent EXCEPT !.pending = keys, !.listed = g.listed \o keys,
                          !.pages = Append(g.pages, r.data),
                          !.nextToken = r.data.NextContinuationToken]
  IN IF ~r.ok THEN [sent EXCEPT !.status = "completed", !.error = r.error]
     ELSE IF which = "marker" THEN drainWithMarker(got, st, inj)
     ELSE drainUnfiltered(got, st, inj)

\* the for-loop without the test that skips the prefix's own marker
drainWithMarker(g, st, inj) ==
  IF Len(g.pending) > 0
  THEN LET key == Head(g.pending)
           rest == [g EXCEPT !.pending = Tail(g.pending)]
       IN IF key \in g.ignoreFilter THEN drainWithMarker(rest, st, inj)
          ELSE [rest EXCEPT !.status = "suspendedYield", !.yielded = Append(g.yielded, key)]
  ELSE IF g.nextToken # <<>>
       THEN fetchPageMutant([g EXCEPT !.continuationToken = g.nextToken], st, inj, "marker")
       ELSE [g EXCEPT !.status = "completed", !.continuationToken = g.nextToken]

\* the for-loop without the ignore test
drainUnfiltered(g, st, inj) ==
  IF Len(g.pending) > 0
  THEN LET key == Head(g.pending)
           rest == [g EXCEPT !.pending = Tail(g.pending)]
       IN IF key = g.normalizedPrefix /\ EndsWith(key, Slash)
          THEN drainUnfiltered(rest, st, inj)
          ELSE [rest EXCEPT !.status = "suspendedYield", !.yielded = Append(g.yielded, key)]
  ELSE IF g.nextToken # <<>>
       THEN fetchPageMutant([g EXCEPT !.continuationToken = g.nextToken], st, inj, "filter")
       ELSE [g EXCEPT !.status = "completed", !.continuationToken = g.nextToken]

RECURSIVE drain(_, _, _)
RECURSIVE fetchPage(_, _, _)
RECURSIVE drainFirstPageOnly(_, _, _)
RECURSIVE drainPrefetch(_, _, _)
RECURSIVE drainShallow(_, _, _)

\* the for-loop followed by a loop test that never continues
drainFirstPageOnly(g, st, inj) ==
  IF Len(g.pending) > 0
  THEN LET key == Head(g.pending)
           rest == [g EXCEPT !.pending = Tail(g.pending)]
       IN IF key = g.normalizedPrefix /\ EndsWith(key, Slash) THEN drainFirstPageOnly(rest, st, inj)
          ELSE IF key \in g.ignoreFilter THEN drainFirstPageOnly(rest, st, inj)
          ELSE [rest EXCEPT !.status = "suspendedYield", !.yielded = Append(g.yielded, key)]
  ELSE [g EXCEPT !.status = "completed", !.continuationToken = <<>>]

\* the for-loop requesting the next page as soon as it yields the last key of a page
drainPrefetch(g, st, inj) ==
  IF Len(g.pending) > 0
  THEN LET key == Head(g.pending)
           rest == [g EXCEPT !.pending = Tail(g.pending)]
           out == [rest EXCEPT !.status = "suspendedYield", !.yielded = Append(g.yielded, key)]
           command == [cmd |-> "ListObjectsV2", Bucket |-> bucketName,
                       Prefix |-> g.normalizedPrefix,
                       ContinuationToken |-> g.nextToken, MaxKeys |-> 0]
           r == Send(st, command, Len(g.reqs) + 1, inj)
           keys == [i \in 1..Len(r.data.Contents) |-> r.data.Contents[i].Key]
       IN IF key = g.normalizedPrefix /\ EndsWith(key, Slash) THEN drainPrefetch(rest, st, inj)
          ELSE IF key \in g.ignoreFilter THEN drainPrefetch(rest, st, inj)
          ELSE IF rest.pending = <<>> /\ g.nextToken # <<>> /\ r.ok
          THEN [out EXCEPT !.reqs = Append(g.reqs, command), !.pages = Append(g.pages, r.data),
                           !.pending = keys, !.listed = g.listed \o keys,
                           !.continuationToken = g.nextToken,
                           !.nextToken = r.data.NextContinuationToken]
          ELSE out
  ELSE IF g.nextToken # <<>>
       THEN fetchPage([g EXCEPT !.continuationToken = g.nextToken], st, inj)
       ELSE [g EXCEPT !.status = "completed", !.continuationToken = g.nextToken]

\* the for-loop of a listing that honours recursive: false by passing over the keys
\* that lie below a "/" after the prefix
drainShallow(g, st, inj) ==
  IF Len(g.pending) > 0
  THEN LET key == Head(g.pending)
           rest == [g EXCEPT !.pending = Tail(g.pending)]
           below == SubSeq(key, Len(g.normalizedPrefix) + 1, Len(key))
       IN IF key = g.normalizedPrefix /\ EndsWith(key, Slash) THEN drainShallow(rest, st, inj)
          ELSE IF key \in g.ignoreFilter THEN drainShallow(rest, st, inj)
          ELSE IF ~g.recursive /\ (\E i \in 1..Len(below) : below[i] = Slash)
          THEN drainShallow(rest, st, inj)
          ELSE [rest EXCEPT !.status = "suspendedYield", !.yielded = Append(g.yielded, key)]
  ELSE IF g.nextToken # <<>>
       THEN fetchPage([g EXCEPT !.continuationToken = g.nextToken], st, inj)
       ELSE [g EXCEPT !.status = "completed", !.continuationToken = g.nextToken]

\* the for-loop over response.Contents and the do-while test after it
drain(g, st, inj) ==
  IF Len(g.pending) > 0
  THEN LET key == Head(g.pending)
           rest == [g EXCEPT !.pending = Tail(g.pending)]
       IN IF key = g.normalizedPrefix /\ EndsWith(key, Slash) THEN drain(rest, st, inj)
          ELSE IF key \in g.ignoreFilter THEN drain(rest, st, inj)
          ELSE [rest EXCEPT !.status = "suspendedYield", !.yielded = Append(g.yielded, key)]
  ELSE IF g.nextToken # <<>>
       THEN fetchPage([g EXCEPT !.continuationToken = g.nextToken], st, inj)
       ELSE [g EXCEPT !.status = "completed", !.continuationToken = g.nextToken]

\* one iteration of the do-while: the page request and its response (the response r
\* and the generator holding its page are each bound once, as the elements of a set)
fetchPage(g, st, inj) ==
  LET command == [cmd |-> "ListObjectsV2", Bucket |-> bucketName,
                  Prefix |-> g.normalizedPrefix,
                  ContinuationToken |-> g.continuationToken, MaxKeys |-> 0]
      sent == [g EXCEPT !.reqs = Append(g.reqs, command)]
      page(r) ==
        LET keys == [i \in 1..Len(r.data.Contents) |-> r.data.Contents[i].Key]
        IN [sent EXCEPT !.pending = keys, !.listed = g.listed \o keys,
                        !.pages = Append(g.pages, r.data),
                        !.nextToken = r.data.NextContinuationToken]
  IN CHOOSE out \in
       UNION { IF ~r.ok THEN {[sent EXCEPT !.status = "completed", !.error = r.error]}
               ELSE { drain(got, st, inj) : got \in {page(r)} }
               : r \in {Send(st, command, Len(g.reqs) + 1, inj)} } : TRUE

\* the generator body from its start up to the first yield, return or throw (the
\* generator holding the prefix and the filter is bound once, as the element of a set)
enterBody(g, st, inj, defaultFilter) ==
  LET s3Prefix == s3Key(g.fsPath)
      normalizedPrefix ==
        IF s3Prefix.key = <<>> THEN <<>>
        ELSE IF EndsWith(s3Prefix.key, Slash) THEN s3Prefix.key
        ELSE s3Prefix.key \o <<Slash>>
      ignoreFilter == IF g.ig # {} THEN CHOOSE f \in g.ig : TRUE ELSE defaultFilter
  IN IF ~s3Prefix.ok THEN [g EXCEPT !.status = "completed", !.error = s3Prefix.error]
     ELSE CHOOSE out \in
            { fetchPage(entered, st, inj) :
                entered \in {[g EXCEPT !.normalizedPrefix = normalizedPrefix,
                                       !.ignoreFilter = ignoreFilter]} } : TRUE

\* a next() that never reports the end of the loop: the generator stays suspended
nextNeverDone(g, st, inj, defaultFilter) ==
  IF g.status = "suspendedStart" THEN enterBody(g, st, inj, defaultFilter)
  ELSE IF g.status = "suspendedYield"
       THEN IF drain(g, st, inj).status = "completed" /\ drain(g, st, inj).error = NoError
            THEN g
            ELSE drain(g, st, inj)
  ELSE g

\* generator.next()
next(g, st, inj, defaultFilter) ==
  IF g.status = "suspendedStart" THEN enterBody(g, st, inj, defaultFilter)
  ELSE IF g.status = "suspendedYield" THEN drain(g, st, inj)
  ELSE g

----------------------------------------------------------------------------
(* State and actions                                                        *)

NoCall ==
  [op |-> "none", path |-> <<>>, path2 |-> <<>>, content |-> <<>>, ok |-> TRUE,
   value |-> Undefined, error |-> NoError, reqs |-> <<>>, hit |-> FALSE]

\* the options the service is constructed with when the adapter is studied
Configured ==
  [accessKeyId |-> <<"k">>, secretAccessKey |-> <<"k">>, sessionToken |-> Undefined,
   region |-> <<"k">>]

Init ==
  /\ store = << >>
  /\ s3Client = 0
  /\ awsS3Client = 0
  /\ constructed = 0
  /\ stsClient = 0
  /\ options = Configured
  /\ inflight = {}
  /\ last = NoCall
  /\ gen = NoGenerator
  /\ other = NoGenerator

\* a getS3Client that keeps no instance: a new S3Client on every call
awsGetS3ClientUncached ==
  IF constructed < 3
  THEN /\ constructed' = constructed + 1
       /\ awsS3Client' = constructed'
  ELSE UNCHANGED <<awsS3Client, constructed>>

\* AWSService.getS3Client: initializeAWSClient(S3Client) when none is cached;
\* instances are numbered in the order of their construction
awsGetS3Client ==
  IF awsS3Client = 0
  THEN /\ constructed' = constructed + 1
       /\ awsS3Client' = constructed'
  ELSE UNCHANGED <<awsS3Client, constructed>>

\* S3FileSystemService._getS3Client
getS3Client ==
  IF s3Client # 0
  THEN UNCHANGED clients
  ELSE /\ awsGetS3Client
       /\ s3Client' = awsS3Client'

\* the record of a finished call
Called(op, path, path2, content, inj, out) ==
  [op |-> op, path |-> path, path2 |-> path2, content |-> content, ok |-> out.ok,
   value |-> out.value, error |-> out.error, reqs |-> out.reqs,
   hit |-> (inj.at \in 1..Len(out.reqs))]

WriteFile(fsPath, content, inj) ==
  \E out \in {writeFile(store, fsPath, content, inj)} :
     /\ getS3Client
     /\ store' = out.st
     /\ last' = Called("writeFile", fsPath, <<>>, content, inj, out)
     /\ UNCHANGED <<gen, other, provider>>

GetFile(fsPath, inj) ==
  \E out \in {getFile(store, fsPath, inj)} :
     /\ getS3Client
     /\ store' = out.st
     /\ last' = Called("getFile", fsPath, <<>>, <<>>, inj, out)
     /\ UNCHANGED <<gen, other, provider>>

DeleteFile(fsPath, inj) ==
  \E out \in {deleteFile(store, fsPath, inj)} :
     /\ getS3Client
     /\ store' = out.st
     /\ last' = Called("deleteFile", fsPath, <<>>, <<>>, inj, out)
     /\ UNCHANGED <<gen, other, provider>>

Exists(fsPath, inj) ==
  \E out \in {exists(store, fsPath, inj)} :
     /\ getS3Client
     /\ store' = out.st
     /\ last' = Called("exists", fsPath, <<>>, <<>>, inj, out)
     /\ UNCHANGED <<gen, other, provider>>

Stat(fsPath, inj) ==
  \E out \in {stat(store, fsPath, inj)} :
     /\ getS3Client
     /\ store' = out.st
     /\ last' = Called("stat", fsPath, <<>>, <<>>, inj, out)
     /\ UNCHANGED <<gen, other, provider>>

Copy(sourceFsPath, destinationFsPath, inj) ==
  \E out \in {copy(store, sourceFsPath, destinationFsPath, inj)} :
     /\ getS3Client
     /\ store' = out.st
     /\ last' = Called("copy", sourceFsPath, destinationFsPath, <<>>, inj, out)
     /\ UNCHANGED <<gen, other, provider>>

\* createDirectory reaches _getS3Client only through stat, after the root check
CreateDirectory(fsPath, inj) ==
  \E out \in {createDirectory(store, fsPath, inj)}, k \in {s3Key(fsPath)} :
     /\ IF k.ok /\ k.key # <<>> THEN getS3Client ELSE UNCHANGED clients
     /\ store' = out.st
     /\ last' = Called("createDirectory", fsPath, <<>>, <<>>, inj, out)
     /\ UNCHANGED <<gen, other, provider>>

\* chown, chmod, rename, watch, executeCommand, borrowFile, glob, grep
UnsupportedCall(method, arg) ==
  \E out \in {unsupported(store, method)} :
     /\ store' = out.st
     /\ last' = Called(method, arg, <<>>, <<>>, NoInject, out)
     /\ UNCHANGED <<clients, gen, other, provider>>

Next ==
  \/ \E p \in Paths, c \in Contents, inj \in Failures : WriteFile(p, c, inj)
  \/ \E p \in Paths, inj \in Failures : GetFile(p, inj)
  \/ \E p \in Paths, inj \in Failures : DeleteFile(p, inj)
  \/ \E p \in Paths, inj \in Injections(1) : Exists(p, inj)
  \/ \E p \in Paths, inj \in Injections(2) : Stat(p, inj)
  \/ \E p \in CopyPaths, q \in CopyPaths, inj \in Failures : Copy(p, q, inj)
  \/ \E p \in Paths, inj \in Injections(3) : CreateDirectory(p, inj)
  \/ \E m \in Unsupported, p \in AnyArgs : UnsupportedCall(m, p)

Spec == Init /\ [][Next]_vars

----------------------------------------------------------------------------
(* Tree listing over an arbitrary bucket                                    *)

\* the keys the adapter's own writes and markers can store
FileKeys == {s3Key(p).key : p \in {q \in Paths : s3Key(q).ok /\ s3Key(q).key # <<>>}}

MarkerKeys == {k \o <<Slash>> : k \in FileKeys}

\* the buckets the adapter can have produced
Buckets ==
  UNION {[K -> {<<104, 105>>, <<>>}] : K \in SUBSET (FileKeys \cup MarkerKeys)}

InitTree ==
  /\ store \in {b \in Buckets : \A k \in DOMAIN b : (b[k] = <<>>) <=> (k \in MarkerKeys)}
  /\ s3Client = 0
  /\ awsS3Client = 0
  /\ constructed = 0
  /\ stsClient = 0
  /\ options = Configured
  /\ inflight = {}
  /\ last = NoCall
  /\ gen = NoGenerator
  /\ other = NoGenerator

\* a caller obtains the generator; nothing of the body runs yet
TreeCall(fsPath, ig, recursive) ==
  /\ gen.status \in {"none", "completed"}
  /\ gen' = getDirectoryTree(fsPath, ig, recursive)
  /\ UNCHANGED <<store, clients, last, provider, other>>

\* the consumer asks for the next element
TreeNext(inj, defaultFilter) ==
  /\ gen.status \in {"suspendedStart", "suspendedYield", "completed"}
  /\ \E g \in {next(gen, store, inj, defaultFilter)} : gen' = g
  /\ IF gen.status = "suspendedStart" /\ s3Key(gen.fsPath).ok
     THEN getS3Client
     ELSE UNCHANGED clients
  /\ UNCHANGED <<store, last, provider, other>>

\* the consumer stops consuming: generator.return()
TreeReturn ==
  /\ gen.status \in {"suspendedStart", "suspendedYield"}
  /\ gen' = [gen EXCEPT !.status = "completed", !.abandoned = TRUE]
  /\ UNCHANGED <<store, clients, last, provider, other>>

NextTree ==
  \/ \E p \in Paths, ig \in {{}} \cup {{f} : f \in IgnoreFilters}, r \in BOOLEAN :
       TreeCall(p, ig, r)
  \/ \E inj \in Injections(2), f \in IgnoreFilters : TreeNext(inj, f)
  \/ TreeReturn

SpecTree == InitTree /\ [][NextTree]_vars

\* the listings a consumer that keeps consuming starts
LivePaths == { <<>>, <<"d">>, <<".", ".", "/", "d">> }

LiveFilters == { {}, {<<"d", "/", "i">>} }

\* the consumer's next(), whatever the service answers
Consume == \E inj \in Injections(2) : TreeNext(inj, {})

NextTreeLive ==
  \/ \E p \in LivePaths, f \in LiveFilters : TreeCall(p, {f}, TRUE)
  \/ Consume
  \/ TreeReturn

\* a consumer that keeps consuming: for await never leaves a next() uncalled
SpecTreeLive == InitTree /\ [][NextTreeLive]_vars /\ WF_vars(Consume)

----------------------------------------------------------------------------
(* Two tree listings on one adapter, consumed in any interleaving           *)

\* a caller obtains a second generator while the first may be suspended
OtherCall(fsPath, ig, recursive) ==
  /\ other.status \in {"none", "completed"}
  /\ other' = getDirectoryTree(fsPath, ig, recursive)
  /\ UNCHANGED <<store, clients, last, provider, gen>>

\* the consumer of the second generator asks for the next element
OtherNext(inj, defaultFilter) ==
  /\ other.status \in {"suspendedStart", "suspendedYield", "completed"}
  /\ \E g \in {next(other, store, inj, defaultFilter)} : other' = g
  /\ IF other.status = "suspendedStart" /\ s3Key(other.fsPath).ok
     THEN getS3Client
     ELSE UNCHANGED clients
  /\ UNCHANGED <<store, last, provider, gen>>

\* the consumer of the second generator stops consuming
OtherReturn ==
  /\ other.status \in {"suspendedStart", "suspendedYield"}
  /\ other' = [other EXCEPT !.status = "completed", !.abandoned = TRUE]
  /\ UNCHANGED <<store, clients, last, provider, gen>>

NextTrees ==
  \/ \E p \in LivePaths, f \in LiveFilters : TreeCall(p, {f}, TRUE)
  \/ Consume
  \/ TreeReturn
  \/ \E p \in LivePaths, f \in LiveFilters : OtherCall(p, {f}, TRUE)
  \/ \E inj \in Injections(2) : OtherNext(inj, {})
  \/ OtherReturn

SpecTrees == InitTree /\ [][NextTrees]_vars

----------------------------------------------------------------------------
(* _s3Key on its own: every short string over the characters it looks at    *)

\* the characters _s3Key distinguishes, and a character it does not
Alphabet == {"d", ".", "/", "\\"}

RECURSIVE StringsUpTo(_)
StringsUpTo(n) ==
  IF n = 0 THEN {<<>>}
  ELSE LET shorter == StringsUpTo(n - 1)
       IN shorter \cup {Append(t, c) : t \in {u \in shorter : Len(u) = n - 1}, c \in Alphabet}

\* "a/b/../c", "../x", "a/../../x"
Examples ==
  { <<"a", "/", "b", "/", ".", ".", "/", "c">>,
    <<".", ".", "/", "x">>,
    <<"a", "/", ".", ".", "/", ".", ".", "/", "x">> }

KeyInputs == StringsUpTo(MaxLen) \cup Examples

\* the outcome of this._s3Key(fsPath)
s3KeyCall(fsPath) ==
  LET k == s3Key(fsPath)
  IN IF k.ok THEN Return(String(k.key), <<>>, << >>) ELSE Throw(k.error, <<>>, << >>)

\* a caller holds a path string it has not normalized yet
InitKey ==
  /\ store = << >>
  /\ s3Client = 0
  /\ awsS3Client = 0
  /\ constructed = 0
  /\ stsClient = 0
  /\ options = Configured
  /\ inflight = {}
  /\ last \in {[NoCall EXCEPT !.path = fsPath] : fsPath \in KeyInputs}
  /\ gen = NoGenerator
  /\ other = NoGenerator

\* _s3Key(fsPath)
S3Key ==
  /\ last.op = "none"
  /\ last' = Called("_s3Key", last.path, <<>>, <<>>, NoInject, s3KeyCall(last.path))
  /\ UNCHANGED <<store, clients, gen, other, provider>>

\* _s3Key applied to a key that _s3Key returned; path2 keeps the first argument
S3KeyOfKey ==
  /\ last.op = "_s3Key" /\ last.ok
  /\ last' = Called("_s3Key(_s3Key)", last.value.text, last.path, <<>>, NoInject,
                    s3KeyCall(last.value.text))
  /\ UNCHANGED <<store, clients, gen, other, provider>>

NextKey ==
  \/ S3Key
  \/ S3KeyOfKey

SpecKey == InitKey /\ [][NextKey]_vars

----------------------------------------------------------------------------
(* Overlapping operations: each runs synchronously up to an await, where    *)
(* other operations and other users of the AWSService may run               *)

\* the adapter operations that send requests
Sending ==
  {"writeFile", "getFile", "deleteFile", "exists", "stat", "copy", "getDirectoryTree",
   "createDirectory"}

\* the operations that may send a further request after an await
Resuming == {"stat", "getDirectoryTree", "createDirectory"}

\* an S3Client instance as a value
Client(id) == [type |-> "S3Client", id |-> id]

\* the record of a request handed to client.send
Sent(op, id) == [NoCall EXCEPT !.op = op, !.value = Client(id)]

\* an operation starts: const s3Client = this._getS3Client(), then its first
\* await s3Client.send(command)
Begin(slot, op) ==
  /\ \A o \in inflight : o.slot # slot
  /\ getS3Client
  /\ inflight' = inflight \cup {[slot |-> slot, op |-> op, s3Client |-> s3Client', sent |-> 1]}
  /\ last' = Sent(op, s3Client')
  /\ UNCHANGED <<store, gen, other, stsClient, options>>

\* a suspended operation resumes and sends its next request: stat and
\* getDirectoryTree through the client they hold, createDirectory through
\* this._getS3Client() called once more
Resume(o) ==
  /\ o.op \in Resuming /\ o.sent < 3
  /\ IF o.op = "createDirectory" /\ o.sent = 2 THEN getS3Client ELSE UNCHANGED clients
  /\ inflight' = (inflight \ {o}) \cup {[o EXCEPT !.sent = o.sent + 1]}
  /\ last' = Sent(o.op, IF o.op = "createDirectory" /\ o.sent = 2 THEN s3Client' ELSE o.s3Client)
  /\ UNCHANGED <<store, gen, other, stsClient, options>>

\* a suspended operation resumes and settles
Settle(o) ==
  /\ inflight' = inflight \ {o}
  /\ UNCHANGED <<store, clients, gen, other, stsClient, options, last>>

\* another user of the service (a tool) calls awsService.getS3Client()
ProviderGetS3Client ==
  /\ awsGetS3Client
  /\ last' = Sent("getS3Client", awsS3Client')
  /\ UNCHANGED <<store, s3Client, gen, other, provider>>

NextClient ==
  \/ \E slot \in 1..MaxInflight, op \in Sending : Begin(slot, op)
  \/ \E o \in inflight : Resume(o)
  \/ \E o \in inflight : Settle(o)
  \/ ProviderGetS3Client

SpecClient == Init /\ [][NextClient]_vars

----------------------------------------------------------------------------
(* AWSService: credentials and caller identity                               *)

\* the strings an option can hold: empty, a key, a blank
OptionStrings == {<<>>, <<"k">>, <<" ">>}

\* the options AWSConfigSchema accepts; sessionToken is optional
AllOptions ==
  [accessKeyId : OptionStrings, secretAccessKey : OptionStrings,
   sessionToken : {Undefined} \cup {String(t) : t \in OptionStrings},
   region : OptionStrings]

\* truthiness of a string
Truthy(text) == Len(text) > 0

\* isAuthenticated without the test of the region
isAuthenticatedNoRegion(opts) ==
  Truthy(opts.accessKeyId) /\ Truthy(opts.secretAccessKey)

\* !!(accessKeyId && secretAccessKey && region)
isAuthenticated(opts) ==
  Truthy(opts.accessKeyId) /\ Truthy(opts.secretAccessKey) /\ Truthy(opts.region)

NotConfigured == <<"AWS", "credentials", "are", "not", "configured.">>

\* what STS answers a GetCallerIdentity request with
StsAnswers ==
  { Reply([Arn |-> "Arn", Account |-> "Account", UserId |-> "UserId"], << >>),
    Fault([S3Error("InvalidClientTokenId", 403) EXCEPT !.msg = <<"invalid", "token">>], << >>),
    Fault([S3Error("ExpiredToken", 403) EXCEPT !.msg = <<"expired", "token">>], << >>) }

\* AWSService.getSTSClient: the cached client, constructed when none is cached
getSTSClient(sts) == IF sts = 0 THEN 1 ELSE sts

\* getCallerIdentity: its outcome and the stsClient field it leaves
getCallerIdentity(opts, sts, answer) ==
  LET command == [cmd |-> "GetCallerIdentity"]
  IN IF ~isAuthenticated(opts)
     THEN [Throw(AdapterError(NotConfigured, <<>>), <<>>, << >>) EXCEPT !.st = sts]
     ELSE IF answer.ok
     THEN [Return([Arn |-> answer.data.Arn, Account |-> answer.data.Account,
                   UserId |-> answer.data.UserId], <<command>>, << >>)
             EXCEPT !.st = getSTSClient(sts)]
     ELSE [Throw(answer.error, <<command>>, << >>) EXCEPT !.st = getSTSClient(sts)]

\* status that lets the failure of the identity call through
statusRethrowing(opts, sts, answer) ==
  LET identity == getCallerIdentity(opts, sts, answer)
  IN IF identity.ok
     THEN [identity EXCEPT !.value =
             [active |-> TRUE, service |-> "AWSService", authenticated |-> TRUE,
              accountInfo |-> identity.value, error |-> Undefined]]
     ELSE identity

\* status: the result object, absent properties as Undefined
status(opts, sts, answer) ==
  LET identity == getCallerIdentity(opts, sts, answer)
  IN IF identity.ok
     THEN [identity EXCEPT !.value =
             [active |-> TRUE, service |-> "AWSService", authenticated |-> TRUE,
              accountInfo |-> identity.value, error |-> Undefined]]
     ELSE [identity EXCEPT !.ok = TRUE, !.error = NoError, !.value =
             [active |-> FALSE, service |-> "AWSService", authenticated |-> FALSE,
              accountInfo |-> Undefined, error |-> String(identity.error.msg)]]

\* run, up to its waitForAbort: the identity check inside try/catch
run(opts, sts, answer) ==
  LET identity == getCallerIdentity(opts, sts, answer)
  IN [identity EXCEPT !.ok = TRUE, !.error = NoError, !.value = Undefined]

\* a service constructed with any options the schema accepts
InitAWS ==
  /\ store = << >>
  /\ s3Client = 0
  /\ awsS3Client = 0
  /\ constructed = 0
  /\ stsClient = 0
  /\ options \in AllOptions
  /\ inflight = {}
  /\ last = NoCall
  /\ gen = NoGenerator
  /\ other = NoGenerator

IsAuthenticated ==
  /\ last' = Called("isAuthenticated", <<>>, <<>>, <<>>, NoInject,
                    Return(Boolean(isAuthenticated(options)), <<>>, << >>))
  /\ UNCHANGED <<store, clients, stsClient, options, inflight, gen, other>>

GetCallerIdentity(answer) ==
  \E out \in {getCallerIdentity(options, stsClient, answer)} :
     /\ stsClient' = out.st
     /\ last' = Called("getCallerIdentity", <<>>, <<>>, <<>>, NoInject, out)
     /\ UNCHANGED <<store, clients, options, inflight, gen, other>>

Status(answer) ==
  \E out \in {status(options, stsClient, answer)} :
     /\ stsClient' = out.st
     /\ last' = Called("status", <<>>, <<>>, <<>>, NoInject, out)
     /\ UNCHANGED <<store, clients, options, inflight, gen, other>>

Run(answer) ==
  \E out \in {run(options, stsClient, answer)} :
     /\ stsClient' = out.st
     /\ last' = Called("run", <<>>, <<>>, <<>>, NoInject, out)
     /\ UNCHANGED <<store, clients, options, inflight, gen, other>>

NextAWS ==
  \/ IsAuthenticated
  \/ \E answer \in StsAnswers : GetCallerIdentity(answer)
  \/ \E answer \in StsAnswers : Status(answer)
  \/ \E answer \in StsAnswers : Run(answer)

SpecAWS == InitAWS /\ [][NextAWS]_vars

----------------------------------------------------------------------------
(* Vocabulary of the properties                                             *)

Key(fsPath) == s3Key(fsPath).key

\* fsPath names an object: it normalizes, and not to the root
Concrete(fsPath) == s3Key(fsPath).ok /\ Key(fsPath) # <<>>

Issued(reqs, cmd) == \E i \in 1..Len(reqs) : reqs[i].cmd = cmd

\* some stored key lies under key + "/"
HasChild(st, key) == \E k \in DOMAIN st : StartsWith(k, key \o <<Slash>>)

\* the directory prefixes a key lies under: "d" for "d/i"
Ancestors(key) == {SubSeq(key, 1, i - 1) : i \in {j \in 1..Len(key) : key[j] = Slash}}

----------------------------------------------------------------------------
(* C1 .. C10                                                                *)

\* C1: once writeFile(p, c) has returned true, exists on every path of the same
\* key returns true and getFile returns c, whatever the key held before.
C1_WriteThenRead ==
  (last.op = "writeFile" /\ last.ok) =>
    \A q \in {p \in Paths : Concrete(p) /\ Key(p) = Key(last.path)} :
      /\ exists(store, q, NoInject).ok
      /\ exists(store, q, NoInject).value = Boolean(TRUE)
      /\ getFile(store, q, NoInject).ok
      /\ getFile(store, q, NoInject).value = String(last.content)

\* a write of the two-byte content has succeeded while another object is stored
C1_Witness ==
  /\ last.op = "writeFile" /\ last.ok /\ last.content = <<118, 233>>
  /\ Cardinality(DOMAIN store) > 1
  /\ getFile(store, last.path, NoInject).value = String(<<118, 233>>)

\* C2: once deleteFile(p) has returned true, exists(p) returns false and a second
\* deleteFile(p) returns true and changes nothing; deleteFile on any key that is
\* not stored returns true and leaves the bucket as it is.
C2_DeleteIdempotent ==
  /\ (last.op = "deleteFile" /\ last.ok) =>
       /\ exists(store, last.path, NoInject).ok
       /\ exists(store, last.path, NoInject).value = Boolean(FALSE)
       /\ deleteFile(store, last.path, NoInject).ok
       /\ deleteFile(store, last.path, NoInject).st = store
  /\ \A p \in Paths :
       (Concrete(p) /\ Key(p) \notin DOMAIN store) =>
         /\ deleteFile(store, p, NoInject).ok
         /\ deleteFile(store, p, NoInject).value = Boolean(TRUE)
         /\ deleteFile(store, p, NoInject).st = store

\* "d" has been deleted while "d/i" is still stored
C2_Witness ==
  /\ last.op = "deleteFile" /\ last.ok
  /\ Key(last.path) \notin DOMAIN store
  /\ HasChild(store, Key(last.path))

\* C3: a successful copy(a, b) leaves the object at a as it was and makes getFile(b)
\* return what getFile(a) returned, which is v when writeFile(a, v) came just
\* before; its one command names the adapter's bucket as source and destination.
C3_Copy ==
  [][ (last'.op = "copy" /\ last'.ok) =>
        LET a == Key(last'.path)
            b == Key(last'.path2)
            command == last'.reqs[1]
        IN /\ a \in DOMAIN store /\ a \in DOMAIN store' /\ store'[a] = store[a]
           /\ getFile(store', last'.path2, NoInject).ok
           /\ getFile(store', last'.path2, NoInject).value
                = getFile(store, last'.path, NoInject).value
           /\ getFile(store', last'.path, NoInject).value
                = getFile(store, last'.path, NoInject).value
           /\ (last.op = "writeFile" /\ last.ok /\ Key(last.path) = a) =>
                /\ getFile(store', last'.path2, NoInject).value = String(last.content)
                /\ getFile(store', last'.path, NoInject).value = String(last.content)
           /\ Len(last'.reqs) = 1
           /\ command.cmd = "CopyObject"
           /\ command.Bucket = bucketName
           /\ CopySourceBucket(command.CopySource) = command.Bucket
           /\ CopySourceKey(command.CopySource) = a
           /\ command.Key = b ]_vars

\* a copy has succeeded and both keys hold the two-byte content
C3_Witness ==
  /\ last.op = "copy" /\ last.ok
  /\ Key(last.path) # Key(last.path2)
  /\ getFile(store, last.path, NoInject).value = String(<<118, 233>>)
  /\ getFile(store, last.path2, NoInject).value = String(<<118, 233>>)

\* C4: a stat of a non-root path that no remote failure interrupts ends in exactly
\* one of three ways: a file result iff an object is stored under the key itself,
\* else a directory result (size 0, no modification time) iff some stored key
\* begins with key + "/", else a "Path not found" error.
C4_StatTrichotomy ==
  (last.op = "stat" /\ Concrete(last.path) /\ ~last.hit) =>
    LET K == Key(last.path)
        file == last.ok /\ last.value.isFile /\ ~last.value.isDirectory
        directory == /\ last.ok /\ last.value.isDirectory /\ ~last.value.isFile
                     /\ last.value.size = 0 /\ last.value.modified = "null"
        notFound == ~last.ok /\ StartsWith(last.error.msg, PathNotFound)
    IN /\ file <=> (K \in DOMAIN store)
       /\ directory <=> (K \notin DOMAIN store /\ HasChild(store, K))
       /\ notFound <=> (K \notin DOMAIN store /\ ~HasChild(store, K))
       /\ file \/ directory \/ notFound

\* stat has reported a directory that exists only as the prefix of a child key
C4_Witness ==
  /\ last.op = "stat" /\ Concrete(last.path) /\ ~last.hit
  /\ last.ok /\ last.value.isDirectory
  /\ (Key(last.path) \o <<Slash>>) \notin DOMAIN store

\* C5: stat of a root path ("" or "/") never sends the HeadObject probe and, its
\* listing answered, reports isDirectory true and isFile false whatever the
\* bucket holds, the empty bucket included.
C5_StatRoot ==
  (last.op = "stat" /\ s3Key(last.path).ok /\ Key(last.path) = <<>>) =>
    /\ ~Issued(last.reqs, "HeadObject")
    /\ ~last.hit => (last.ok /\ last.value.isDirectory /\ ~last.value.isFile)

\* stat("/") has reported a directory on the empty bucket
C5_Witness ==
  /\ last.op = "stat" /\ last.path = <<Slash>> /\ last.ok
  /\ last.value.isDirectory /\ store = << >>

\* C6 as stated: once writeFile has stored a key under d + "/" and no marker
\* d + "/" is stored, stat(d) reports a directory.
C6_ChildMakesDirectory ==
  (last.op = "writeFile" /\ last.ok) =>
    \A d \in Ancestors(Key(last.path)) :
      (d \o <<Slash>>) \notin DOMAIN store =>
        /\ stat(store, d, NoInject).ok
        /\ stat(store, d, NoInject).value.isDirectory

\* C6 as amended: once writeFile has stored a key under d + "/" and no marker
\* d + "/" is stored, stat(d) reports a directory unless an object is stored
\* under the key d itself, and then it reports a file.
C6_ChildMakesDirectoryUnlessFile ==
  (last.op = "writeFile" /\ last.ok) =>
    \A d \in Ancestors(Key(last.path)) :
      (d \o <<Slash>>) \notin DOMAIN store =>
        /\ stat(store, d, NoInject).ok
        /\ d \notin DOMAIN store =>
             /\ stat(store, d, NoInject).value.isDirectory
             /\ ~stat(store, d, NoInject).value.isFile
        /\ d \in DOMAIN store =>
             /\ stat(store, d, NoInject).value.isFile
             /\ ~stat(store, d, NoInject).value.isDirectory

\* "d/i" has been written, neither "d" nor "d/" is stored, and stat("d") reports
\* a directory
C6_Witness ==
  /\ last.op = "writeFile" /\ last.ok /\ Ancestors(Key(last.path)) # {}
  /\ \A d \in Ancestors(Key(last.path)) :
       /\ d \notin DOMAIN store
       /\ (d \o <<Slash>>) \notin DOMAIN store
       /\ stat(store, d, NoInject).value.isDirectory

\* C7: once createDirectory(d) has returned true, a second createDirectory(d)
\* returns true and sends no PutObject; and whenever stat reports d as a
\* directory, createDirectory(d) returns true and sends no PutObject.
C7_CreateDirectoryIdempotent ==
  /\ (last.op = "createDirectory" /\ last.ok) =>
       /\ createDirectory(store, last.path, NoInject).ok
       /\ createDirectory(store, last.path, NoInject).value = Boolean(TRUE)
       /\ ~Issued(createDirectory(store, last.path, NoInject).reqs, "PutObject")
  /\ \A d \in Paths :
       (stat(store, d, NoInject).ok /\ stat(store, d, NoInject).value.isDirectory) =>
         /\ createDirectory(store, d, NoInject).ok
         /\ ~Issued(createDirectory(store, d, NoInject).reqs, "PutObject")
         /\ createDirectory(store, d, NoInject).st = store

\* C10: each of the eight unsupported methods throws an Error whose message
\* names the method, sends no request, and leaves the bucket, the cached
\* clients and the generator as they were.
C10_Unsupported ==
  [][ last'.op \in Unsupported =>
        /\ ~last'.ok
        /\ last'.error.name = "Error"
        /\ \E i \in 1..Len(last'.error.msg) : last'.error.msg[i] = last'.op
        /\ last'.reqs = <<>>
        /\ store' = store
        /\ s3Client' = s3Client
        /\ awsS3Client' = awsS3Client
        /\ constructed' = constructed
        /\ gen' = gen ]_vars

\* glob has thrown on a bucket that holds objects
C10_Witness ==
  /\ last.op = "glob" /\ ~last.ok /\ last.reqs = <<>>
  /\ store # << >>

----------------------------------------------------------------------------
(* C8, C9: tree listing                                                     *)

\* the ignore predicate that decides a listing: the caller's, else the default
Predicate(g) == IF g.ig # {} THEN CHOOSE f \in g.ig : TRUE ELSE g.ignoreFilter

\* the keys of the page responses that the for-loop has gone through
Processed(g) == SubSeq(g.listed, 1, Len(g.listed) - Len(g.pending))

\* the generator has entered its body (its path normalizes)
Entered(g) == g.status \in {"suspendedYield", "completed"} /\ s3Key(g.fsPath).ok

\* the generator ran to its end: no throw, not abandoned by the consumer
RanToEnd(g) ==
  g.status = "completed" /\ g.error = NoError /\ ~g.abandoned /\ s3Key(g.fsPath).ok

\* C8: a tree listing of d never yields the key toKey(d) + "/", stored or not,
\* and a listing that ran to its end has yielded every stored key under
\* toKey(d) + "/" that the ignore predicate lets through.
C8_NoOwnMarker ==
  Entered(gen) =>
    LET own == Key(gen.fsPath) \o <<Slash>> IN
    /\ \A i \in 1..Len(gen.yielded) : gen.yielded[i] # own
    /\ RanToEnd(gen) =>
         \A k \in DOMAIN store :
           (StartsWith(k, own) /\ k # own /\ k \notin Predicate(gen)) =>
             \E i \in 1..Len(gen.yielded) : gen.yielded[i] = k

\* the marker "d/" is stored and was listed, and the listing of "d" has ended
\* with the child "d/i" as its only element
C8_Witness ==
  /\ RanToEnd(gen) /\ Key(gen.fsPath) = <<"d">>
  /\ <<"d", "/">> \in DOMAIN store
  /\ \E i \in 1..Len(gen.listed) : gen.listed[i] = <<"d", "/">>
  /\ gen.yielded = << <<"d", "/", "i">> >>

\* C9: the keys yielded so far are, in order, the keys of the page responses gone
\* through so far for which the ignore predicate (the caller's, or the default
\* when the caller passes none) is false and which are not the prefix's own
\* marker; no key is yielded twice.
C9_YieldsUnignored ==
  Entered(gen) =>
    /\ gen.yielded =
         SelectSeq(Processed(gen),
                   LAMBDA k : k \notin Predicate(gen)
                              /\ ~(k = gen.normalizedPrefix /\ EndsWith(k, Slash)))
    /\ \A i, j \in 1..Len(gen.yielded) : gen.yielded[i] = gen.yielded[j] => i = j

\* a listing under the default predicate has ended over two pages, with a key
\* left out and a key yielded
C9_Witness ==
  /\ RanToEnd(gen) /\ gen.ig = {}
  /\ Len(gen.reqs) > 1
  /\ Len(gen.yielded) > 0
  /\ \E i \in 1..Len(gen.listed) : gen.listed[i] \in Predicate(gen)

----------------------------------------------------------------------------
(* C11 .. C20                                                               *)

\* the operations that normalize their path argument
Normalizing ==
  {"writeFile", "getFile", "deleteFile", "exists", "stat", "copy", "createDirectory"}

\* the operations that refuse the empty key
EmptyKeyRejecting == {"writeFile", "getFile", "deleteFile", "copy"}

InvalidPath == <<"Invalid", "path:">>

\* the outcome of a call refused before any request: thrown, nothing sent,
\* bucket as before
Refused(out, st) == ~out.ok /\ out.error.name = "Error" /\ out.reqs = <<>> /\ out.st = st

\* C11: a call whose path (either path of copy) traverses above the root throws
\* the "Invalid path" Error naming that path, and a writeFile, getFile, deleteFile
\* or copy whose key (either key of copy) is empty throws an Error; in both cases
\* no request is sent and the bucket is as before, whatever the bucket holds and
\* whatever the service would have answered.  A tree listing of a traversing
\* path throws the same Error at its first next(), with no request.
C11_ConfigErrorsFirst ==
  /\ ( /\ last.op \in Normalizing
       /\ \/ ~s3Key(last.path).ok
          \/ last.op = "copy" /\ ~s3Key(last.path2).ok )
     => /\ ~last.ok
        /\ last.error \in {TraversalError(last.path), TraversalError(last.path2)}
        /\ StartsWith(last.error.msg, InvalidPath)
        /\ ~s3Key(last.error.arg).ok
        /\ last.reqs = <<>>
  /\ ( /\ last.op \in EmptyKeyRejecting
       /\ s3Key(last.path).ok
       /\ last.op = "copy" => s3Key(last.path2).ok
       /\ \/ Key(last.path) = <<>>
          \/ last.op = "copy" /\ Key(last.path2) = <<>> )
     => /\ ~last.ok
        /\ last.error.name = "Error"
        /\ last.reqs = <<>>
  /\ \A p \in Paths, inj \in Failures :
       /\ ~s3Key(p).ok =>
            /\ \A c \in Contents : Refused(writeFile(store, p, c, inj), store)
            /\ Refused(getFile(store, p, inj), store)
            /\ Refused(deleteFile(store, p, inj), store)
            /\ Refused(exists(store, p, inj), store)
            /\ Refused(stat(store, p, inj), store)
            /\ Refused(createDirectory(store, p, inj), store)
            /\ stat(store, p, inj).error = TraversalError(p)
            /\ LET g == next(getDirectoryTree(p, {}, TRUE), store, inj, {})
               IN /\ g.status = "completed"
                  /\ g.error = TraversalError(p)
                  /\ g.reqs = <<>>
       /\ (s3Key(p).ok /\ Key(p) = <<>>) =>
            /\ \A c \in Contents : Refused(writeFile(store, p, c, inj), store)
            /\ Refused(getFile(store, p, inj), store)
            /\ Refused(deleteFile(store, p, inj), store)
  /\ \A p \in CopyPaths, q \in CopyPaths, inj \in Failures :
       (~Concrete(p) \/ ~Concrete(q)) => Refused(copy(store, p, q, inj), store)

\* a copy from a stored object to the root has thrown without a request
C11_Witness ==
  /\ last.op = "copy" /\ ~last.ok /\ last.reqs = <<>>
  /\ Concrete(last.path) /\ Key(last.path) \in DOMAIN store
  /\ s3Key(last.path2).ok /\ Key(last.path2) = <<>>

\* C12: whenever _s3Key(p) returns a key, _s3Key of that key returns and returns
\* the same key.
C12_Idempotent ==
  /\ (last.op = "_s3Key" /\ last.ok) =>
       /\ s3Key(last.value.text).ok
       /\ s3Key(last.value.text).key = last.value.text
  /\ last.op = "_s3Key(_s3Key)" =>
       /\ last.ok
       /\ last.value = String(last.path)

\* a path with backslashes and a "." part was normalized to a different,
\* non-empty key, and normalizing that key gave it back
C12_Witness ==
  /\ last.op = "_s3Key(_s3Key)" /\ last.ok
  /\ last.path # <<>> /\ last.path # last.path2
  /\ \E i \in 1..Len(last.path2) : last.path2[i] = Backslash
  /\ last.value = String(last.path)

\* the stack _s3Key is left with after its loop over the parts of fsPath
Retained(fsPath) ==
  WalkParts(Split(StripTrailing(StripLeading(ReplaceBackslashes(fsPath)))), <<>>).parts

\* C13: a key that _s3Key returns neither begins nor ends with "/", holds no
\* backslash, and, unless it is empty, none of its "/"-separated segments is
\* empty, "." or ".."; it is the empty string exactly when the loop retained
\* no segment.
C13_KeyShape ==
  (last.op \in {"_s3Key", "_s3Key(_s3Key)"} /\ last.ok) =>
    LET key == last.value.text IN
    /\ key # <<>> => (Head(key) # Slash /\ key[Len(key)] # Slash)
    /\ \A i \in 1..Len(key) : key[i] # Backslash
    /\ key # <<>> =>
         \A i \in 1..Len(Split(key)) : Split(key)[i] \notin {<<>>, Dot, DotDot}
    /\ (key = <<>>) <=> (Retained(last.path) = <<>>)

\* a path with leading and trailing separators, a backslash and a "." part
\* gave a one-segment key
C13_Witness ==
  /\ last.op = "_s3Key" /\ last.ok /\ last.path # <<>>
  /\ Head(last.path) = Slash /\ last.path[Len(last.path)] \in {Slash, Backslash}
  /\ \E i \in 1..Len(last.path) : last.path[i] = "."
  /\ last.value = String(<<"d">>)

\* all but the last segment of a key
Parent(key) ==
  LET parts == Split(key) IN Join(SubSeq(parts, 1, Len(parts) - 1))

DotDotPart == <<Slash>> \o DotDot

\* C14: _s3Key("a/b/../c") is "a/c"; _s3Key("../x") and _s3Key("a/../../x") throw
\* the Error "Invalid path: ... attempts to traverse above bucket root.".  For
\* every path p that _s3Key accepts, a further ".." part removes the last
\* segment of the key when the key has one and throws that Error when the key
\* is empty; and a path that _s3Key rejects stays rejected whatever follows it.
C14_Stack ==
  /\ s3Key(<<"a", "/", "b", "/", ".", ".", "/", "c">>).ok
  /\ s3Key(<<"a", "/", "b", "/", ".", ".", "/", "c">>).key = <<"a", "/", "c">>
  /\ (last.op = "_s3Key" /\ last.path = <<"a", "/", "b", "/", ".", ".", "/", "c">>) =>
       last.value = String(<<"a", "/", "c">>)
  /\ (last.op = "_s3Key" /\ last.path \in
         {<<".", ".", "/", "x">>, <<"a", "/", ".", ".", "/", ".", ".", "/", "x">>}) =>
       /\ ~last.ok
       /\ last.error = TraversalError(last.path)
  /\ (last.op = "_s3Key" /\ ~last.ok) =>
       /\ last.error.name = "Error"
       /\ SubSeq(last.error.msg, 4, 7) = <<"attempts", "to", "traverse", "above">>
       /\ last.error.msg[Len(last.error.msg)] = "root."
       /\ last.error.arg = last.path
       /\ \A c \in Alphabet : ~s3Key(last.path \o <<Slash, c>>).ok
  /\ (last.op = "_s3Key" /\ last.ok) =>
       LET up == s3Key(last.path \o DotDotPart) IN
       IF last.value.text = <<>>
       THEN ~up.ok /\ up.error = TraversalError(last.path \o DotDotPart)
       ELSE up.ok /\ up.key = Parent(last.value.text)

\* "a/../../x" was rejected: its second ".." found the stack empty
C14_Witness ==
  /\ last.op = "_s3Key" /\ ~last.ok
  /\ last.path = <<"a", "/", ".", ".", "/", ".", ".", "/", "x">>
  /\ last.error = TraversalError(last.path)

\* C15: exists of a root path returns false and sends nothing.  exists of any
\* other path sends one HeadObject for the key; it returns true when the probe
\* is answered, false when the probe fails with the name NoSuchKey, the name
\* NotFound or the status 404, and throws the probe's error itself otherwise.
C15_Exists ==
  /\ (last.op = "exists" /\ s3Key(last.path).ok) =>
       IF Key(last.path) = <<>>
       THEN last.ok /\ last.value = Boolean(FALSE) /\ last.reqs = <<>>
       ELSE /\ last.reqs = << [cmd |-> "HeadObject", Bucket |-> bucketName,
                               Key |-> Key(last.path)] >>
            /\ ~last.hit => (last.ok /\ last.value = Boolean(Key(last.path) \in DOMAIN store))
  /\ \A p \in Paths :
       /\ (s3Key(p).ok /\ Key(p) = <<>>) =>
            \A inj \in Injections(1) : exists(store, p, inj) = Return(Boolean(FALSE), <<>>, store)
       /\ Concrete(p) =>
            \A e \in ProbeErrors \cup InjectErrors :
              LET out == exists(store, p, [at |-> 1, err |-> e])
              IN /\ Len(out.reqs) = 1
                 /\ out.st = store
                 /\ IF e.name = "NoSuchKey" \/ e.name = "NotFound" \/ e.status = 404
                    THEN out.ok /\ out.value = Boolean(FALSE)
                    ELSE ~out.ok /\ out.error = e

\* the probe of a stored key was rejected with a server error, and exists threw it
C15_Witness ==
  /\ last.op = "exists" /\ last.hit /\ ~last.ok
  /\ last.error = S3Error("InternalError", 500)
  /\ Key(last.path) \in DOMAIN store
  /\ Len(last.reqs) = 1

\* the page request of a listing under prefix with cursor token
PageRequest(prefix, token) ==
  [cmd |-> "ListObjectsV2", Bucket |-> bucketName, Prefix |-> prefix,
   ContinuationToken |-> token, MaxKeys |-> 0]

RECURSIVE ChainLength(_, _, _)
\* number of pages the service answers a listing with, from cursor token on
ChainLength(st, prefix, token) ==
  LET next_ == S3Send(st, PageRequest(prefix, token)).data.NextContinuationToken
  IN IF next_ = <<>> THEN 1 ELSE 1 + ChainLength(st, prefix, next_)

\* C16: the first page request of a listing carries no cursor; request i + 1
\* carries the cursor of response i, which is not empty; every request is a
\* ListObjectsV2 of the bucket under the normalized prefix; and a listing that
\* ran to its end has sent exactly as many requests as the service's chain of
\* pages is long, received those pages in order, and stopped at the first
\* response without a next cursor.
C16_CursorProtocol ==
  Entered(gen) =>
    /\ ~gen.abandoned => Len(gen.reqs) >= 1
    /\ Len(gen.reqs) >= 1 => gen.reqs[1] = PageRequest(gen.normalizedPrefix, <<>>)
    /\ Len(gen.pages) \in {Len(gen.reqs), Len(gen.reqs) - 1}
    /\ \A i \in 1..(Len(gen.reqs) - 1) :
         /\ gen.pages[i].NextContinuationToken # <<>>
         /\ gen.reqs[i + 1] =
              PageRequest(gen.normalizedPrefix, gen.pages[i].NextContinuationToken)
    /\ RanToEnd(gen) =>
         /\ Len(gen.reqs) = ChainLength(store, gen.normalizedPrefix, <<>>)
         /\ Len(gen.pages) = Len(gen.reqs)
         /\ gen.pages[Len(gen.pages)].NextContinuationToken = <<>>
         /\ \A i \in 1..Len(gen.reqs) : gen.pages[i] = S3Send(store, gen.reqs[i]).data

\* a listing of the whole bucket ran to its end over two pages, the second
\* requested with the cursor of the first
C16_Witness ==
  /\ RanToEnd(gen) /\ gen.normalizedPrefix = <<>>
  /\ Len(gen.reqs) = 2
  /\ gen.reqs[2].ContinuationToken # <<>>
  /\ gen.reqs[2].ContinuationToken = gen.pages[1].NextContinuationToken

\* the for-loop would pass over key without yielding it
Skipped(g, key) ==
  (key = g.normalizedPrefix /\ EndsWith(key, Slash)) \/ key \in g.ignoreFilter

\* a generator as a lazy consumer may find it
LazyState(g, st) ==
  /\ g.status = "suspendedStart" => g.reqs = <<>>
  /\ g.status = "suspendedYield" =>
       LET page == g.pages[Len(g.pages)].Contents IN
       /\ Len(g.reqs) >= 1 /\ Len(g.pages) = Len(g.reqs)
       /\ \E i \in 1..Len(page) :
            /\ page[i].Key = g.yielded[Len(g.yielded)]
            /\ g.pending = [j \in 1..(Len(page) - i) |-> page[i + j].Key]
  /\ g.abandoned =>
       \A inj \in Injections(2), f \in IgnoreFilters : next(g, st, inj, f).reqs = g.reqs

\* C17: getDirectoryTree sends nothing until the first next(); while the
\* generator is suspended at a yield, the key it yielded last belongs to the
\* page requested last and the keys after it on that page are still to come;
\* page requests are added only by a next() of the consumer, on a generator
\* that has nothing left to yield from the pages it holds; and once the
\* consumer has returned the generator, no request is added for that call,
\* whatever next() calls follow.
C17_Lazy ==
  [][ /\ LazyState(gen', store')
      /\ gen'.reqs # gen.reqs =>
           \/ gen'.status = "suspendedStart" /\ gen'.reqs = <<>>
           \/ /\ gen.status \in {"suspendedStart", "suspendedYield"}
              /\ ~gen.abandoned
              /\ Len(gen'.reqs) > Len(gen.reqs)
              /\ SubSeq(gen'.reqs, 1, Len(gen.reqs)) = gen.reqs
              /\ \A i \in 1..Len(gen.pending) : Skipped(gen, gen.pending[i])
      /\ gen.abandoned =>
           \/ gen'.reqs = gen.reqs
           \/ gen'.status = "suspendedStart" /\ gen'.reqs = <<>> ]_vars

\* the consumer returned the generator after the first page, with a further
\* page waiting at the service and never requested
C17_Witness ==
  /\ gen.abandoned /\ gen.status = "completed"
  /\ Len(gen.yielded) >= 1
  /\ Len(gen.reqs) = 1
  /\ gen.nextToken # <<>>

\* C18: at most one S3Client is ever constructed; the service's s3Client, once
\* set, is that instance and so is the adapter's; every getS3Client() call
\* returns it; and every request of every operation, whichever operations are
\* suspended around it, is handed to it.
C18_OneClient ==
  /\ constructed <= 1
  /\ awsS3Client = constructed
  /\ s3Client \in {0, awsS3Client}
  /\ \A o \in inflight : o.s3Client # 0 /\ o.s3Client = awsS3Client
  /\ inflight # {} => s3Client # 0
  /\ last.op # "none" => (awsS3Client # 0 /\ last.value = Client(awsS3Client))

\* two operations are suspended together, a third user has asked the service
\* for its client, and all hold the one instance constructed
C18_Witness ==
  /\ Cardinality(inflight) = 2
  /\ \E o \in inflight : o.op = "createDirectory" /\ o.sent = 3
  /\ last.op = "getS3Client" /\ last.value = Client(1)
  /\ constructed = 1

RECURSIVE forAwait(_, _, _, _)
\* for await (const key of tree) {}: next() until the generator is done
forAwait(g, st, inj, defaultFilter) ==
  IF g.status = "completed" THEN g
  ELSE forAwait(next(g, st, inj, defaultFilter), st, inj, defaultFilter)

\* the outcome of a call whose one request was answered with failure e
FailedWith(out, e, st) ==
  ~out.ok /\ out.error = e /\ Len(out.reqs) = 1 /\ out.st = st

\* C19: a writeFile, getFile, deleteFile or copy whose request fails throws the
\* very error the request failed with, having sent that one request and
\* nothing else, and leaves the bucket as it was (a failed copy creates no
\* destination object); a tree listing whose page request number n fails throws
\* that error at that next(), with n requests sent and none after.
C19_NoRetry ==
  /\ (last.op \in EmptyKeyRejecting /\ ~last.ok /\ last.reqs # <<>>) =>
       /\ Len(last.reqs) = 1
       /\ last.error.name # "Error"
       /\ ~last.hit => last.error = S3Send(store, last.reqs[1]).error
  /\ \A p \in Paths, e \in InjectErrors :
       Concrete(p) =>
         LET inj == [at |-> 1, err |-> e] IN
         /\ \A c \in Contents : FailedWith(writeFile(store, p, c, inj), e, store)
         /\ FailedWith(getFile(store, p, inj), e, store)
         /\ FailedWith(deleteFile(store, p, inj), e, store)
  /\ \A p \in CopyPaths, q \in CopyPaths :
       (Concrete(p) /\ Concrete(q)) =>
         /\ \A e \in InjectErrors : FailedWith(copy(store, p, q, [at |-> 1, err |-> e]), e, store)
         /\ ~copy(store, p, q, NoInject).ok =>
              FailedWith(copy(store, p, q, NoInject),
                         S3Send(store, copy(store, p, q, NoInject).reqs[1]).error, store)
  /\ \A p \in Paths, at \in 1..2, e \in InjectErrors :
       s3Key(p).ok =>
         LET g == forAwait(getDirectoryTree(p, {}, TRUE), store, [at |-> at, err |-> e], {})
             prefix == IF Key(p) = <<>> THEN <<>> ELSE Key(p) \o <<Slash>>
         IN IF at <= ChainLength(store, prefix, <<>>)
            THEN /\ g.error = e
                 /\ Len(g.reqs) = at
                 /\ Len(g.pages) = at - 1
                 /\ \A i, j \in 1..Len(g.reqs) : g.reqs[i] = g.reqs[j] => i = j
            ELSE g.error = NoError

\* a copy of a stored object failed at the service: the error came back as it
\* was, one request was sent and no destination object exists
C19_Witness ==
  /\ last.op = "copy" /\ last.hit /\ ~last.ok
  /\ last.error = S3Error("InternalError", 500)
  /\ Len(last.reqs) = 1
  /\ Key(last.path) \in DOMAIN store
  /\ Key(last.path2) \notin DOMAIN store

\* C20: isAuthenticated() is true exactly when accessKeyId, secretAccessKey and
\* region are all non-empty, whatever the session token is or is not; and with
\* isAuthenticated() false, getCallerIdentity throws "AWS credentials are not
\* configured.", sends no request and leaves stsClient unset, whatever STS
\* would have answered.
C20_IsAuthenticated ==
  LET configured == /\ options.accessKeyId # <<>>
                    /\ options.secretAccessKey # <<>>
                    /\ options.region # <<>>
  IN /\ isAuthenticated(options) <=> configured
     /\ last.op = "isAuthenticated" => (last.ok /\ last.value = Boolean(configured))
     /\ \A t \in {Undefined} \cup {String(u) : u \in OptionStrings} :
          isAuthenticated([options EXCEPT !.sessionToken = t]) = isAuthenticated(options)
     /\ ~configured =>
          /\ stsClient = 0
          /\ last.op = "getCallerIdentity" =>
               /\ ~last.ok
               /\ last.error = AdapterError(NotConfigured, <<>>)
               /\ last.reqs = <<>>
          /\ \A answer \in StsAnswers :
               /\ ~getCallerIdentity(options, stsClient, answer).ok
               /\ getCallerIdentity(options, stsClient, answer).reqs = <<>>
               /\ getCallerIdentity(options, stsClient, answer).st = 0
     /\ (configured /\ last.op = "getCallerIdentity") =>
          (stsClient = 1 /\ Len(last.reqs) = 1)

\* with keys and a session token but an empty region, getCallerIdentity has
\* thrown without a request
C20_Witness ==
  /\ options.accessKeyId # <<>> /\ options.secretAccessKey # <<>>
  /\ options.sessionToken = String(<<"k">>)
  /\ options.region = <<>>
  /\ last.op = "getCallerIdentity" /\ ~last.ok /\ last.reqs = <<>>
  /\ stsClient = 0

----------------------------------------------------------------------------
(* C21 .. C30                                                               *)

\* C21: status() returns, whatever getCallerIdentity does: active equals
\* authenticated; accountInfo is present and error absent exactly when
\* getCallerIdentity returned (and accountInfo is what it returned); error is
\* present and accountInfo absent exactly when it threw, the "not configured"
\* Error included, and error is then the message of what it threw.  run()
\* does not throw when its identity check does.
C21_StatusNeverFails ==
  /\ last.op \in {"status", "run"} => last.ok
  /\ last.op = "status" => last.value.active = last.value.authenticated
  /\ \A answer \in StsAnswers :
       LET identity == getCallerIdentity(options, stsClient, answer)
           out == status(options, stsClient, answer)
       IN /\ out.ok
          /\ out.value.active = out.value.authenticated
          /\ out.value.active = identity.ok
          /\ identity.ok <=> (out.value.accountInfo # Undefined /\ out.value.error = Undefined)
          /\ ~identity.ok <=> (out.value.error # Undefined /\ out.value.accountInfo = Undefined)
          /\ identity.ok => out.value.accountInfo = identity.value
          /\ ~identity.ok => out.value.error = String(identity.error.msg)
          /\ out.reqs = identity.reqs
          /\ run(options, stsClient, answer).ok
  /\ (last.op = "status" /\ ~isAuthenticated(options)) =>
       /\ ~last.value.active
       /\ last.value.error = String(NotConfigured)
       /\ last.reqs = <<>>

\* status() has returned the service's rejection of configured credentials as
\* its error property
C21_Witness ==
  /\ last.op = "status" /\ last.ok
  /\ isAuthenticated(options) /\ Len(last.reqs) = 1
  /\ ~last.value.active /\ ~last.value.authenticated
  /\ last.value.accountInfo = Undefined
  /\ last.value.error # Undefined

\* C22: with a consumer that keeps calling next(), every tree listing that has
\* been started is eventually done: the do-while ends at the first response
\* whose NextContinuationToken is undefined or empty, and nothing else ends it.
C22_Terminates ==
  (gen.status \in {"suspendedStart", "suspendedYield"}) ~> (gen.status = "completed")

\* a listing of a bucket of four keys is done after two pages, every key yielded
C22_Witness ==
  /\ RanToEnd(gen) /\ gen.ignoreFilter = {}
  /\ Cardinality(DOMAIN store) = 4
  /\ Len(gen.yielded) = 4
  /\ Len(gen.pages) = 2
  /\ gen.nextToken = <<>>

\* the same generator, had the caller passed the other value of recursive
OtherRecursive(g) == [g EXCEPT !.recursive = ~g.recursive]

\* C23: the recursive option changes nothing. Every page request sent is the
\* ListObjectsV2 of the prefix and the cursor with no further parameter (no
\* delimiter); at every point of a listing, the next() of the generator called
\* with the other value of recursive sends the same requests and yields the
\* same key, whatever the service answers; and so both listings, consumed to
\* their end, send the same requests and yield the same keys.
C23_RecursiveIgnored ==
  /\ \A i \in 1..Len(gen.reqs) :
       gen.reqs[i] = PageRequest(gen.normalizedPrefix, gen.reqs[i].ContinuationToken)
  /\ gen.status \in {"suspendedStart", "suspendedYield"} =>
       /\ \A inj \in Injections(2), f \in IgnoreFilters :
            next(OtherRecursive(gen), store, inj, f)
              = OtherRecursive(next(gen, store, inj, f))
       /\ \A f \in IgnoreFilters :
            /\ forAwait(OtherRecursive(gen), store, NoInject, f).yielded
                 = forAwait(gen, store, NoInject, f).yielded
            /\ forAwait(OtherRecursive(gen), store, NoInject, f).reqs
                 = forAwait(gen, store, NoInject, f).reqs

\* a listing of the root called with recursive: false has ended and has yielded
\* "d/i", a key below the directory "d"
C23_Witness ==
  /\ RanToEnd(gen) /\ ~gen.recursive /\ gen.normalizedPrefix = <<>>
  /\ <<"d">> \in DOMAIN store
  /\ \E i \in 1..Len(gen.yielded) : gen.yielded[i] = <<"d", "/", "i">>

\* the cursors the page responses have returned to a generator
Returned(g) ==
  {g.pages[i].NextContinuationToken : i \in 1..Len(g.pages)} \ {<<>>}

\* the cursors of g's requests are its own: none on the first request, and on
\* request i + 1 the cursor that response i returned to g
OwnCursor(g) ==
  /\ Len(g.reqs) >= 1 => g.reqs[1].ContinuationToken = <<>>
  /\ \A i \in 1..(Len(g.reqs) - 1) :
       /\ i <= Len(g.pages)
       /\ g.reqs[i + 1].ContinuationToken = g.pages[i].NextContinuationToken

\* C24: with two tree listings of one adapter consumed in any interleaving, and
\* whatever listings were completed or abandoned before them, the first page
\* request of each carries no cursor and every later request of each carries
\* the cursor its own previous response returned; a cursor returned to the
\* other listing only is never sent.
C24_OwnCursor ==
  /\ OwnCursor(gen)
  /\ OwnCursor(other)
  /\ \A i \in 1..Len(gen.reqs) :
       gen.reqs[i].ContinuationToken \in Returned(other) =>
         gen.reqs[i].ContinuationToken \in Returned(gen)
  /\ \A i \in 1..Len(other.reqs) :
       other.reqs[i].ContinuationToken \in Returned(gen) =>
         other.reqs[i].ContinuationToken \in Returned(other)

\* both listings have sent their second request, each with its own cursor, and
\* the two cursors differ
C24_Witness ==
  /\ Len(gen.reqs) = 2 /\ Len(other.reqs) = 2
  /\ gen.status = "suspendedYield" /\ other.status = "suspendedYield"
  /\ gen.reqs[2].ContinuationToken # other.reqs[2].ContinuationToken
  /\ gen.reqs[2].ContinuationToken \notin Returned(other)
  /\ other.reqs[2].ContinuationToken \notin Returned(gen)

\* a failure of each class as the answer to the first request of a call
ProbeInjections == [at : {1}, err : ProbeErrors]

\* the HeadObject probe of stat for key
ProbeCommand(key) == [cmd |-> "HeadObject", Bucket |-> bucketName, Key |-> key]

\* the listing stat falls back to for key
ListingCommand(key) ==
  [cmd |-> "ListObjectsV2", Bucket |-> bucketName, Prefix |-> key \o <<Slash>>,
   ContinuationToken |-> <<>>, MaxKeys |-> 1]

\* C25: a stat of a non-root key sends its probe first and its listing, limited
\* to one key, only as the second request, after the probe failed with NoSuchKey,
\* NotFound or status 404; a probe that failed otherwise makes stat throw that
\* very error with the probe as its only request; and stat throws "Path not
\* found" only when the listing was sent, was answered, and held no key.
C25_StatOrder ==
  (last.op = "stat" /\ Concrete(last.path)) =>
    LET probeCommand == ProbeCommand(Key(last.path))
        listing == ListingCommand(Key(last.path))
    IN /\ Len(last.reqs) >= 1 /\ last.reqs[1] = probeCommand
       /\ Issued(last.reqs, "ListObjectsV2") => last.reqs = <<probeCommand, listing>>
       /\ (~last.ok /\ StartsWith(last.error.msg, PathNotFound)) =>
            /\ last.reqs = <<probeCommand, listing>>
            /\ S3Send(store, listing).ok
            /\ S3Send(store, listing).data.KeyCount = 0
       /\ \A inj \in Injections(2) \cup ProbeInjections :
            LET out == stat(store, last.path, inj)
                probe == Send(store, probeCommand, 1, inj)
                listed == Send(store, listing, 2, inj)
            IN /\ Issued(out.reqs, "ListObjectsV2") =>
                    /\ ~probe.ok /\ isNotFound(probe.error)
                    /\ out.reqs = <<probeCommand, listing>>
               /\ (~probe.ok /\ ~isNotFound(probe.error)) =>
                    /\ ~out.ok /\ out.error = probe.error
                    /\ out.reqs = <<probeCommand>>
                    /\ out.st = store
               /\ (~out.ok /\ StartsWith(out.error.msg, PathNotFound)) =>
                    /\ out.reqs = <<probeCommand, listing>>
                    /\ listed.ok /\ listed.data.KeyCount = 0

\* stat("d/i") has thrown "Path not found" after its probe and its listing, on a
\* bucket that holds other keys
C25_Witness ==
  /\ last.op = "stat" /\ Key(last.path) = <<"d", "/", "i">>
  /\ ~last.ok /\ StartsWith(last.error.msg, PathNotFound)
  /\ Len(last.reqs) = 2 /\ last.reqs[2].MaxKeys = 1
  /\ store # << >>

\* the key createDirectory hands to stat and to its put
MarkerKey(fsPath) == Key(fsPath) \o <<Slash>>

\* C26: createDirectory on a path of the root returns true having sent nothing.
\* On any other path its PutObject is sent only after its stat of the marker
\* key either returned something that is not a directory or threw "Path not
\* found"; when that stat throws anything else, createDirectory throws the same
\* error, sends no PutObject and leaves the bucket as it was.  (Stated for the
\* call just finished and, after every stat, for the createDirectory of the
\* same path under every failure of each of its requests.)
C26_CreateDirectoryOrder ==
  /\ (last.op = "createDirectory" /\ s3Key(last.path).ok) =>
       /\ Key(last.path) = <<>> => (last.ok /\ last.value = Boolean(TRUE) /\ last.reqs = <<>>)
       /\ Key(last.path) # <<>> =>
            /\ Len(last.reqs) >= 1 /\ last.reqs[1].cmd = "HeadObject"
            /\ \A i \in 1..Len(last.reqs) :
                 last.reqs[i].cmd = "PutObject" =>
                   /\ i = Len(last.reqs) /\ i > 1
                   /\ last.reqs[i].Key = MarkerKey(last.path)
  /\ (last.op = "stat" /\ s3Key(last.path).ok) =>
       \A inj \in Injections(3) :
         LET out == createDirectory(store, last.path, inj)
             existingStat == stat(store, MarkerKey(last.path), inj)
         IN /\ Key(last.path) = <<>> =>
                 (out.ok /\ out.value = Boolean(TRUE) /\ out.reqs = <<>> /\ out.st = store)
            /\ Key(last.path) # <<>> =>
                 /\ Issued(out.reqs, "PutObject") =>
                      \/ existingStat.ok /\ ~existingStat.value.isDirectory
                      \/ ~existingStat.ok /\ StartsWith(existingStat.error.msg, PathNotFound)
                 /\ (existingStat.ok /\ existingStat.value.isDirectory) =>
                      (out.ok /\ out.reqs = existingStat.reqs /\ out.st = store)
                 /\ (~existingStat.ok /\ ~StartsWith(existingStat.error.msg, PathNotFound)) =>
                      /\ ~out.ok /\ out.error = existingStat.error
                      /\ out.reqs = existingStat.reqs
                      /\ ~Issued(out.reqs, "PutObject")
                      /\ out.st = store

\* createDirectory("d") has thrown the failure of its stat's listing: two
\* requests, no PutObject, no marker stored
C26_Witness ==
  /\ last.op = "createDirectory" /\ Key(last.path) = <<"d">>
  /\ ~last.ok /\ last.error.name = "InternalError"
  /\ Len(last.reqs) = 2 /\ last.reqs[2].cmd = "ListObjectsV2"
  /\ <<"d", "/">> \notin DOMAIN store

\* the directories a successful call has made appear: the key of createDirectory,
\* the prefixes of the key of writeFile
MadeDirectories(call) ==
  IF ~call.ok THEN {}
  ELSE IF call.op = "createDirectory" THEN {Key(call.path)} \ {<<>>}
  ELSE IF call.op = "writeFile" THEN Ancestors(Key(call.path))
  ELSE {}

\* C27: with its probe answered, exists(p) returns true exactly when an object
\* is stored under the key of p.  So once createDirectory(d) or a writeFile below
\* d has succeeded and no object is stored under the key d itself, exists(d) and
\* exists(d + "/") return false while stat(d) reports a directory.
C27_ExistsIsObject ==
  /\ s3Key(last.path).ok =>
       /\ exists(store, last.path, NoInject).ok
       /\ exists(store, last.path, NoInject).value = Boolean(Key(last.path) \in DOMAIN store)
  /\ \A d \in MadeDirectories(last) :
       d \notin DOMAIN store =>
         /\ exists(store, d, NoInject) = Return(Boolean(FALSE), <<ProbeCommand(d)>>, store)
         /\ exists(store, d \o <<Slash>>, NoInject)
              = Return(Boolean(FALSE), <<ProbeCommand(d)>>, store)
         /\ stat(store, d, NoInject).ok
         /\ stat(store, d, NoInject).value.isDirectory

\* createDirectory("d") has put the marker "d/", no object "d" is stored, exists("d")
\* and exists("d/") return false and stat("d") reports a directory
C27_Witness ==
  /\ last.op = "createDirectory" /\ last.ok /\ Key(last.path) = <<"d">>
  /\ Issued(last.reqs, "PutObject")
  /\ <<"d">> \notin DOMAIN store /\ <<"d", "/">> \in DOMAIN store
  /\ exists(store, <<"d">>, NoInject).value = Boolean(FALSE)
  /\ exists(store, <<"d", "/">>, NoInject).value = Boolean(FALSE)
  /\ stat(store, <<"d">>, NoInject).value.isDirectory

\* the keys a full listing of fsPath yields, the service answering every page
Listed(st, fsPath) == forAwait(getDirectoryTree(fsPath, {}, TRUE), st, NoInject, {}).yielded

\* C28: whenever an object is stored under the key K itself, stat(K) and
\* stat(K + "/") report a file with the HeadObject probe as their only request,
\* whether or not the marker K + "/" or keys under K + "/" are stored; and the
\* tree listing of K yields, in the order of the service, exactly the stored
\* keys under K + "/" other than the marker, so never K.
C28_FileFirst ==
  (Concrete(last.path) /\ Key(last.path) \in DOMAIN store) =>
    LET K == Key(last.path) IN
    /\ \A p \in {K, K \o <<Slash>>} :
         /\ stat(store, p, NoInject).ok
         /\ stat(store, p, NoInject).value.isFile
         /\ ~stat(store, p, NoInject).value.isDirectory
         /\ stat(store, p, NoInject).reqs = <<ProbeCommand(K)>>
    /\ Listed(store, K) =
         SortedKeys({k \in DOMAIN store : StartsWith(k, K \o <<Slash>>) /\ k # K \o <<Slash>>})
    /\ \A i \in 1..Len(Listed(store, K)) : Listed(store, K)[i] # K

\* the object "d", the marker "d/" and the child "d/i" are stored together; stat("d")
\* has reported a file with one request, and the listing of "d" yields "d/i"
C28_Witness ==
  /\ last.op = "stat" /\ last.ok /\ Key(last.path) = <<"d">>
  /\ last.value.isFile /\ Len(last.reqs) = 1
  /\ {<<"d">>, <<"d", "/">>, <<"d", "/", "i">>} \subseteq DOMAIN store
  /\ Listed(store, <<"d">>) = << <<"d", "/", "i">> >>

\* the stored keys that are directory markers
Markers(st) == {k \in DOMAIN st : EndsWith(k, Slash)}

\* the path createDirectory made the marker for
Directory(marker) == SubSeq(marker, 1, Len(marker) - 1)

\* C29: no step of the adapter removes a stored key that ends in "/" or changes
\* its body; the commands of writeFile, deleteFile and copy name no key that
\* ends in "/"; and in every state, for every stored marker d + "/", whose body
\* is empty, stat(d) does not throw "Path not found", whatever fails.
C29_MarkersPermanent ==
  /\ [][ /\ \A k \in Markers(store) : k \in DOMAIN store' /\ store'[k] = store[k]
         /\ last'.op \in {"writeFile", "deleteFile", "copy"} =>
              \A i \in 1..Len(last'.reqs) :
                /\ ~EndsWith(last'.reqs[i].Key, Slash)
                /\ last'.op = "copy" =>
                     ~EndsWith(CopySourceKey(last'.reqs[i].CopySource), Slash) ]_vars
  /\ [](\A k \in Markers(store) :
          /\ store[k] = <<>>
          /\ \A inj \in Injections(2) :
               LET out == stat(store, Directory(k), inj)
               IN out.ok \/ ~StartsWith(out.error.msg, PathNotFound))

\* deleteFile("d/i") has succeeded, the markers "d/" and "d/i/" are still stored, and
\* stat("d/i") reports a directory
C29_Witness ==
  /\ last.op = "deleteFile" /\ last.ok /\ Key(last.path) = <<"d", "/", "i">>
  /\ Markers(store) = {<<"d", "/">>, <<"d", "/", "i", "/">>}
  /\ <<"d", "/", "i">> \notin DOMAIN store
  /\ stat(store, <<"d", "/", "i">>, NoInject).ok
  /\ stat(store, <<"d", "/", "i">>, NoInject).value.isDirectory

\* the keys whose presence or body differs between two buckets
Changed(st, st2) ==
  {k \in DOMAIN st \cup DOMAIN st2 :
     k \notin DOMAIN st \/ k \notin DOMAIN st2 \/ st[k] # st2[k]}

\* the operations that only read
Reading == {"getFile", "exists", "stat"}

\* C30: a writeFile changes at most the object under the key of its path; a
\* deleteFile removes at most that object, and nothing under the key + "/"; a
\* copy changes at most the object under the key of its destination; a
\* createDirectory adds at most the marker and removes nothing; getFile, exists
\* and stat change nothing; and a tree listing sends only requests that leave
\* the bucket as it is.
C30_Frame ==
  /\ [][ /\ last'.op = "writeFile" => Changed(store, store') \subseteq {Key(last'.path)}
         /\ last'.op = "deleteFile" =>
              /\ Changed(store, store') \subseteq {Key(last'.path)}
              /\ DOMAIN store' \subseteq DOMAIN store
              /\ \A k \in DOMAIN store :
                   StartsWith(k, Key(last'.path) \o <<Slash>>) =>
                     (k \in DOMAIN store' /\ store'[k] = store[k])
         /\ last'.op = "copy" => Changed(store, store') \subseteq {Key(last'.path2)}
         /\ last'.op = "createDirectory" =>
              /\ Changed(store, store') \subseteq {MarkerKey(last'.path)}
              /\ DOMAIN store \subseteq DOMAIN store'
         /\ last'.op \in Reading => store' = store ]_vars
  /\ [](s3Key(last.path).ok =>
          LET tree == forAwait(getDirectoryTree(last.path, {}, TRUE), store, NoInject, {})
          IN \A i \in 1..Len(tree.reqs) :
               /\ tree.reqs[i].cmd = "ListObjectsV2"
               /\ S3Send(store, tree.reqs[i]).st = store)

\* copy("d/i", "d") has succeeded on a bucket that holds "d/" as well: "d" holds the
\* body of "d/i", and "d/i" and "d/" are as before
C30_Witness ==
  /\ last.op = "copy" /\ last.ok
  /\ Key(last.path) = <<"d", "/", "i">> /\ Key(last.path2) = <<"d">>
  /\ {<<"d">>, <<"d", "/">>, <<"d", "/", "i">>} \subseteq DOMAIN store
  /\ store[<<"d">>] = store[<<"d", "/", "i">>]
  /\ store[<<"d", "/">>] = <<>>

====
